---- MODULE Spec2Model ----
(***************************************************************************)
(* A model of the allocators of custom-memory-allocators:                  *)
(*   V2  implicit free list   (src/2. implicit-freelist-allocator/alloc.c) *)
(*   V3  explicit free list   (src/3. explicit-freelist-allocator/alloc.c) *)
(*   V4  buddy allocator      (src/4. buddy-allocator/alloc.c)             *)
(*   V5  slab allocator       (src/5. slab-allocator/alloc.h)              *)
(*   V1  naive list           (src/1. absolutely-naive-allocator/alloc.c)  *)
(* Each allocator is a separate program.  The variable `variant` says      *)
(* which program a behaviour runs; it never changes.  V2 and V3 share the  *)
(* variables of the sbrk heap, V5 runs on top of the V4 variables, V1 has  *)
(* the program break and the caller's outstanding blocks in common with    *)
(* V2 and V3.                                                              *)
(***************************************************************************)
EXTENDS Integers, Naturals, Sequences, FiniteSets, TLC

VARIABLES
    variant,      \* "V1" | "V2" | "V3" | "V4" | "V5": the program that runs
    \* ---- V2 / V3: the sbrk heap
    mem,          \* the words of the heap the allocator owns: address -> word
    junk,         \* what the bytes the allocator does not own read as (V2/V3: a word,
                  \* V4/V5: a node)
    brk,          \* the program break
    heap_list_p,  \* static char *heap_list_p (0 = not initialised, -1 = sbrk failed)
    free_list_p,  \* static char *free_list_p (V3), 0 = NULL
    fault,        \* "none" | "segv" (killed by an invalid access) | "wild" (wrote outside the arena)
    live,         \* the caller's outstanding allocations: set of [p, n]
    last23,       \* what the last V2/V3 call was and what it returned
    \* ---- V4: the buddy arena
    heap_start,   \* static uint8_t *heap_start (0 = buddy_init not called)
    node,         \* the block_t read at each page of the arena: address -> record
    free_list,    \* static block_t *free_list[MAX_ORDER + 1], 0 = NULL
    held,         \* the caller's outstanding buddy blocks: set of [p, order]
    last4,        \* what the last V4 call was and what it returned
    \* ---- V5: slab caches over the buddy arena
    caches,       \* cache id -> kmem_cache_t
    slabs,        \* slab id -> slab_t
    objs,         \* the caller's outstanding objects: set of [c, p]
    last5,        \* what the last V5 call was and what it returned
    \* ---- V1: the list of all blocks
    head,         \* header_t *head, 0 = NULL
    tail,         \* header_t *tail, 0 = NULL
    hdr,          \* the header_t at each block of the list: address -> record
    last1,        \* what the last V1 call was and what it returned
    global_lock,  \* pthread_mutex_t global_lock: 0, or the thread that holds it
    thr           \* V1 with threads: where each thread stands in malloc or free

vars23 == <<mem, junk, brk, heap_list_p, free_list_p, fault, live, last23>>
vars4 == <<heap_start, node, free_list, held, last4>>
vars5 == <<caches, slabs, objs, last5>>
vars1 == <<head, tail, hdr, last1, global_lock, thr>>
vars == <<variant, mem, junk, brk, heap_list_p, free_list_p, fault, live, last23,
          heap_start, node, free_list, held, last4, caches, slabs, objs, last5,
          head, tail, hdr, last1, global_lock, thr>>

(***************************************************************************)
(* Constants of the sources.                                               *)
(***************************************************************************)
WORD == 8
DWORD == 16
PAGE_SIZE == 4096

(***************************************************************************)
(* Bounds of the model.                                                    *)
(***************************************************************************)
\* the heap grows by CHUNKSIZE bytes at least (1 << 12 in the sources, scaled
\* down to four blocks of the minimum size)
CHUNKSIZE == 64
\* the buddy arena has 2^MAX_ORDER pages (MAX_ORDER is 8 in the source)
MAX_ORDER == 2
\* the caller holds at most MaxLive blocks of the V2/V3 heap at a time
MaxLive == 3
\* the caller holds at most MaxHeld buddy blocks at a time
MaxHeld == 4
\* the caller holds at most MaxObjs slab objects at a time
MaxObjs == 4
MaxPairObjs == 2
\* the client that writes into its objects holds at most MaxWriteObjs of them
MaxWriteObjs == 2
\* V1: the threads that call malloc and free at the same time
NThreads == 2
\* V1 with threads: the blocks held or being allocated at a time, and the
\* break beyond which the host refuses (InitBreak + MaxThreadGrowth)
MaxThreadLive == 2
MaxThreadGrowth == 66
\* the fill client allocates MaxFill objects from its cache and no more
MaxFill == 34
\* the largest request size the adjusted size is computed for on its own
MaxRequest == 64
\* V1: the host refuses to move the break beyond InitBreak + MaxGrowth
MaxGrowth == 100

NULL == 0
\* (void *)-1, what sbrk returns on failure
SBRK_FAILED == 0 - 1
\* the program break when the program starts (16-byte aligned)
InitBreak == 256 * DWORD
\* the break beyond which the host of the general client refuses to grow the
\* data segment (two chunks), and the one of the deep client (three chunks)
MaxBreak == InitBreak + (4 * WORD) + (2 * CHUNKSIZE)
DeepBreak == MaxBreak + CHUNKSIZE
\* the request sizes of the deep client (blocks of 32 and 64 bytes)
DeepSizes == {1, 40}
\* the request sizes the caller draws from
\* (blocks of 32, 48, 64 = CHUNKSIZE and 96 > CHUNKSIZE bytes)
ReqSizes == {1, 24, 40, 72}
\* the object sizes the cache is created with (32, 2, 1 and 0 objects per
\* slab); one cache exists at a time
ObjSizes == {64, 1500, 4096, 8192}
\* the object sizes of a second cache
PairSizes == {1500, 4096}
\* the object sizes of the cache the fill client creates: PAGE_SIZE / obj_size
\* is 128, 64 and 32
FillSizes == {32, 64, 128}
\* the object sizes of the cache whose client writes into its objects (32
\* objects and 1 object per slab)
WriteSizes == {64, 4096}
\* the sizes the threads ask of the V1 malloc
ThreadSizes == {1, 40}
\* the sizes asked of the V1 malloc: below, at and above sizeof(header_t)
V1Sizes == {1, 24, 40}

Max(x, y) == IF x > y THEN x ELSE y
\* F applied to the value x: the statements F that follow once x is computed
With(x, F(_)) == F(x)

(***************************************************************************)
(* V2 / V3: words of memory and the boundary-tag macros.                   *)
(***************************************************************************)
\* A word that is neither a boundary tag nor a free-list link holds data the
\* allocator does not control (fresh zero-filled memory, an old tag, bytes
\* the caller stored): it reads as junk.
GET(m, p) == IF p \in DOMAIN m THEN m[p] ELSE junk
PUT(m, p, val) == (p :> val) @@ m

\* (size) | (alloc), alloc being 0 or 1
PACK(size, alloc) == IF size % 2 = 1 THEN size ELSE size + alloc

\* GET(p) & ~(DWORD - 1)
GET_SIZE(m, p) == GET(m, p) - (GET(m, p) % DWORD)
\* GET(p) & 0x1
GET_ALLOC(m, p) == GET(m, p) % 2

HDRP(bp) == bp - WORD
FTRP(m, bp) == (bp + GET_SIZE(m, HDRP(bp))) - DWORD
NXT_BLOCK(m, bp) == bp + GET_SIZE(m, HDRP(bp))
PRV_BLOCK(m, bp) == bp - GET_SIZE(m, bp - DWORD)

\* free-list links of V3, stored in the payload of a free block
GET_NXT_PTR(m, bp) == GET(m, bp + WORD)
GET_PRV_PTR(m, bp) == GET(m, bp)

\* an adjusted size without the room for the header and the footer
AdjustedSize_no_overhead(size) ==
    IF size <= DWORD THEN 2 * DWORD
    ELSE DWORD * ((size + (DWORD - 1)) \div DWORD)

\* an adjusted size rounded up to a multiple of WORD only
AdjustedSize_word_aligned(size) ==
    IF size <= DWORD THEN 2 * DWORD
    ELSE WORD * ((size + DWORD + (WORD - 1)) \div WORD)

\* an adjusted size that rounds the request down, not up
AdjustedSize_round_down(size) ==
    IF size <= DWORD THEN 2 * DWORD
    ELSE DWORD * ((size + DWORD) \div DWORD)

\* the adjusted block size my_malloc and my_realloc compute for a request
AdjustedSize(size) ==
    IF size <= DWORD THEN 2 * DWORD
    ELSE DWORD * ((size + DWORD + (DWORD - 1)) \div DWORD)

(***************************************************************************)
(* The program-break primitive.  The host may refuse any request (ok), and *)
(* refuses every request beyond DeepBreak.                                 *)
(***************************************************************************)
\* an sbrk that moves the break even when it reports failure
sbrk_moves_on_failure(b, incr, ok) ==
    [brk |-> b + incr,
     ret |-> IF ok /\ b + incr <= DeepBreak THEN b ELSE SBRK_FAILED]

sbrk(b, incr, ok) ==
    IF ok /\ b + incr <= DeepBreak
    THEN [ret |-> b, brk |-> b + incr]
    ELSE [ret |-> SBRK_FAILED, brk |-> b]

(***************************************************************************)
(* V2: implicit free list.                                                 *)
(***************************************************************************)
\* a coalesce that merges nothing
V2_coalesce_none(m, bp) == [m |-> m, bp |-> bp]

V2_coalesce(m, bp) ==
    LET prev_alloc == GET_ALLOC(m, FTRP(m, PRV_BLOCK(m, bp)))
        next_alloc == GET_ALLOC(m, HDRP(NXT_BLOCK(m, bp)))
        size == GET_SIZE(m, HDRP(bp))
    IN  IF prev_alloc = 1 /\ next_alloc = 1
        THEN [m |-> m, bp |-> bp]
        ELSE IF prev_alloc = 1 /\ next_alloc = 0
        THEN LET size2 == size + GET_SIZE(m, HDRP(NXT_BLOCK(m, bp)))
             IN  With(PUT(m, HDRP(bp), PACK(size2, 0)), LAMBDA m1 :
                 [m |-> PUT(m1, FTRP(m1, bp), PACK(size2, 0)), bp |-> bp])
        ELSE IF prev_alloc = 0 /\ next_alloc = 1
        THEN LET size3 == size + GET_SIZE(m, FTRP(m, PRV_BLOCK(m, bp)))
             IN  With(PUT(m, FTRP(m, bp), PACK(size3, 0)), LAMBDA m1 :
                 With(PUT(m1, HDRP(PRV_BLOCK(m1, bp)), PACK(size3, 0)), LAMBDA m2 :
                 [m |-> m2, bp |-> PRV_BLOCK(m2, bp)]))
        ELSE LET size4 == size + GET_SIZE(m, FTRP(m, PRV_BLOCK(m, bp)))
                               + GET_SIZE(m, HDRP(NXT_BLOCK(m, bp)))
             IN  With(PUT(m, HDRP(PRV_BLOCK(m, bp)), PACK(size4, 0)), LAMBDA m1 :
                 With(PUT(m1, FTRP(m1, NXT_BLOCK(m1, bp)), PACK(size4, 0)), LAMBDA m2 :
                 [m |-> m2, bp |-> PRV_BLOCK(m2, bp)]))

\* an extend_heap whose new epilogue header is not marked allocated
V2_extend_heap_free_epilogue(m, b, words, ok) ==
    LET size == IF words % 2 = 1 THEN (words + 1) * WORD ELSE words * WORD
    IN  With(sbrk(b, size, ok), LAMBDA s :
        LET bp == s.ret
        IN  IF bp = SBRK_FAILED
            THEN [m |-> m, brk |-> s.brk, bp |-> NULL]
            ELSE With(PUT(m, HDRP(bp), PACK(size, 0)), LAMBDA m1 :
                 With(PUT(m1, FTRP(m1, bp), PACK(size, 0)), LAMBDA m2 :
                 With(PUT(m2, HDRP(NXT_BLOCK(m2, bp)), PACK(0, 0)), LAMBDA m3 :
                 With(V2_coalesce(m3, bp), LAMBDA c :
                 [m |-> c.m, brk |-> s.brk, bp |-> c.bp])))))

V2_extend_heap(m, b, words, ok) ==
    LET size == IF words % 2 = 1 THEN (words + 1) * WORD ELSE words * WORD
    IN  With(sbrk(b, size, ok), LAMBDA s :
        LET bp == s.ret
        IN  IF bp = SBRK_FAILED
            THEN [m |-> m, brk |-> s.brk, bp |-> NULL]
            ELSE With(PUT(m, HDRP(bp), PACK(size, 0)), LAMBDA m1 :
                 With(PUT(m1, FTRP(m1, bp), PACK(size, 0)), LAMBDA m2 :
                 With(PUT(m2, HDRP(NXT_BLOCK(m2, bp)), PACK(0, 1)), LAMBDA m3 :
                 With(V2_coalesce(m3, bp), LAMBDA c :
                 [m |-> c.m, brk |-> s.brk, bp |-> c.bp])))))

V2_mminit(m, b, ok1, ok2) ==
    With(sbrk(b, 4 * WORD, ok1), LAMBDA s :
    LET hlp0 == s.ret
    IN  IF hlp0 = SBRK_FAILED
        THEN [m |-> m, brk |-> s.brk, hlp |-> hlp0, ret |-> 0 - 1]
        ELSE With(PUT(PUT(PUT(PUT(m, hlp0, 0),
                              hlp0 + WORD, PACK(DWORD, 1)),
                          hlp0 + (2 * WORD), PACK(DWORD, 1)),
                      hlp0 + (3 * WORD), PACK(0, 1)), LAMBDA m4 :
             With(V2_extend_heap(m4, s.brk, CHUNKSIZE \div WORD, ok2), LAMBDA e :
             [m |-> e.m, brk |-> e.brk, hlp |-> hlp0 + (2 * WORD),
              ret |-> IF e.bp = NULL THEN 0 - 1 ELSE 0])))

RECURSIVE V2_find_fit_from(_, _, _)
V2_find_fit_from(m, bp, size) ==
    IF GET_SIZE(m, HDRP(bp)) > 0
    THEN IF GET_ALLOC(m, HDRP(bp)) = 0 /\ GET_SIZE(m, HDRP(bp)) >= size
         THEN bp
         ELSE V2_find_fit_from(m, NXT_BLOCK(m, bp), size)
    ELSE NULL

\* a find_fit that keeps walking and returns the last block that fits
RECURSIVE V2_find_fit_last_from(_, _, _, _)
V2_find_fit_last_from(m, bp, size, found) ==
    IF GET_SIZE(m, HDRP(bp)) > 0
    THEN V2_find_fit_last_from(m, NXT_BLOCK(m, bp), size,
                               IF GET_ALLOC(m, HDRP(bp)) = 0 /\ GET_SIZE(m, HDRP(bp)) >= size
                               THEN bp ELSE found)
    ELSE found

V2_find_fit_last(m, hlp, size) == V2_find_fit_last_from(m, hlp, size, NULL)

V2_find_fit(m, hlp, size) == V2_find_fit_from(m, hlp, size)

\* a place that never splits
V2_place_whole(m, bp, size) ==
    LET asize == GET_SIZE(m, HDRP(bp))
    IN  With(PUT(m, HDRP(bp), PACK(asize, 1)), LAMBDA m1 :
        PUT(m1, FTRP(m1, bp), PACK(asize, 1)))

V2_place(m, bp, size) ==
    LET asize == GET_SIZE(m, HDRP(bp))
    IN  IF asize - size >= 2 * DWORD
        THEN With(PUT(m, HDRP(bp), PACK(size, 1)), LAMBDA m1 :
             With(PUT(m1, FTRP(m1, bp), PACK(size, 1)), LAMBDA m2 :
             With(PUT(m2, HDRP(NXT_BLOCK(m2, bp)), PACK(asize - size, 0)), LAMBDA m3 :
             PUT(m3, FTRP(m3, NXT_BLOCK(m3, bp)), PACK(asize - size, 0)))))
        ELSE With(PUT(m, HDRP(bp), PACK(asize, 1)), LAMBDA m1 :
             PUT(m1, FTRP(m1, bp), PACK(asize, 1)))

\* ok = the host's answers to the (at most three) sbrk calls of one my_malloc;
\* i = the heap after the lazy initialisation
V2_my_malloc(m, b, hlp, size, ok) ==
    With(IF hlp = 0
         THEN V2_mminit(m, b, ok[1], ok[2])
         ELSE [m |-> m, brk |-> b, hlp |-> hlp, ret |-> 0], LAMBDA i :
    LET asize == AdjustedSize(size)
    IN  IF size <= 0
        THEN [m |-> i.m, brk |-> i.brk, hlp |-> i.hlp, ret |-> NULL, fault |-> "none"]
        ELSE IF i.hlp = SBRK_FAILED
        THEN \* find_fit reads the header at (char *)-1 - WORD
             [m |-> i.m, brk |-> i.brk, hlp |-> i.hlp, ret |-> NULL, fault |-> "segv"]
        ELSE With(V2_find_fit(i.m, i.hlp, asize), LAMBDA bp :
             IF bp # NULL
             THEN [m |-> V2_place(i.m, bp, asize), brk |-> i.brk, hlp |-> i.hlp,
                   ret |-> bp, fault |-> "none"]
             ELSE With(V2_extend_heap(i.m, i.brk, Max(asize, CHUNKSIZE) \div WORD,
                                      ok[3]), LAMBDA e :
                  IF e.bp # NULL
                  THEN [m |-> V2_place(e.m, e.bp, asize), brk |-> e.brk, hlp |-> i.hlp,
                        ret |-> e.bp, fault |-> "none"]
                  ELSE [m |-> e.m, brk |-> e.brk, hlp |-> i.hlp,
                        ret |-> NULL, fault |-> "none"])))

\* a my_free that clears the alloc bit of the header only
V2_my_free_header_only(m, bp) ==
    V2_coalesce(PUT(m, HDRP(bp), PACK(GET_SIZE(m, HDRP(bp)), 0)), bp).m

V2_my_free(m, bp) ==
    LET size == GET_SIZE(m, HDRP(bp))
    IN  With(PUT(m, HDRP(bp), PACK(size, 0)), LAMBDA m1 :
        With(PUT(m1, FTRP(m1, bp), PACK(size, 0)), LAMBDA m2 :
        V2_coalesce(m2, bp).m))

(***************************************************************************)
(* V3: explicit free list.  s = [m, flp] is the memory and free_list_p.    *)
(***************************************************************************)
\* an insert_node that leaves the old head's back link alone
insert_node_no_back_link(s, bp) ==
    [m |-> PUT(PUT(s.m, bp + WORD, s.flp), bp, NULL), flp |-> bp]

insert_node(s, bp) ==
    With(PUT(PUT(s.m, bp + WORD, s.flp), bp, NULL), LAMBDA m2 :
    [m |-> IF s.flp # NULL THEN PUT(m2, s.flp, bp) ELSE m2, flp |-> bp])

\* a delete_node that unlinks nothing
delete_node_none(s, bp) == s

delete_node(s, bp) ==
    With(IF GET_NXT_PTR(s.m, bp) # NULL
         THEN PUT(s.m, GET_NXT_PTR(s.m, bp), GET_PRV_PTR(s.m, bp))
         ELSE s.m, LAMBDA m1 :
    IF GET_PRV_PTR(m1, bp) # NULL
    THEN [m |-> PUT(m1, GET_PRV_PTR(m1, bp) + WORD, GET_NXT_PTR(m1, bp)),
          flp |-> s.flp]
    ELSE [m |-> m1, flp |-> GET_NXT_PTR(m1, bp)])

\* a coalesce that puts the block on the free list and merges nothing
V3_coalesce_insert_only(s, bp) ==
    With(insert_node(s, bp), LAMBDA s1 : [m |-> s1.m, flp |-> s1.flp, bp |-> bp])

V3_coalesce(s, bp) ==
    LET m == s.m
        prev_alloc == GET_ALLOC(m, FTRP(m, PRV_BLOCK(m, bp)))
        next_alloc == GET_ALLOC(m, HDRP(NXT_BLOCK(m, bp)))
        size == GET_SIZE(m, HDRP(bp))
    IN  IF prev_alloc = 1 /\ next_alloc = 1
        THEN With(insert_node(s, bp), LAMBDA s1 :
             [m |-> s1.m, flp |-> s1.flp, bp |-> bp])
        ELSE IF prev_alloc = 1 /\ next_alloc = 0
        THEN LET size2 == size + GET_SIZE(m, HDRP(NXT_BLOCK(m, bp)))
             IN  With(delete_node(s, NXT_BLOCK(m, bp)), LAMBDA s1 :
                 With(PUT(s1.m, HDRP(bp), PACK(size2, 0)), LAMBDA m2 :
                 With(PUT(m2, FTRP(m2, bp), PACK(size2, 0)), LAMBDA m3 :
                 With(insert_node([m |-> m3, flp |-> s1.flp], bp), LAMBDA s2 :
                 [m |-> s2.m, flp |-> s2.flp, bp |-> bp]))))
        ELSE IF prev_alloc = 0 /\ next_alloc = 1
        THEN LET size3 == size + GET_SIZE(m, FTRP(m, PRV_BLOCK(m, bp)))
             IN  With(PUT(m, FTRP(m, bp), PACK(size3, 0)), LAMBDA m1 :
                 With(PUT(m1, HDRP(PRV_BLOCK(m1, bp)), PACK(size3, 0)), LAMBDA m2 :
                 [m |-> m2, flp |-> s.flp, bp |-> PRV_BLOCK(m2, bp)]))
        ELSE LET size4 == size + GET_SIZE(m, FTRP(m, PRV_BLOCK(m, bp)))
                               + GET_SIZE(m, HDRP(NXT_BLOCK(m, bp)))
             IN  With(delete_node(s, NXT_BLOCK(m, bp)), LAMBDA s1 :
                 With(PUT(s1.m, HDRP(PRV_BLOCK(s1.m, bp)), PACK(size4, 0)), LAMBDA m2 :
                 With(PUT(m2, FTRP(m2, NXT_BLOCK(m2, bp)), PACK(size4, 0)), LAMBDA m3 :
                 [m |-> m3, flp |-> s1.flp, bp |-> PRV_BLOCK(m3, bp)])))

\* s = [m, flp]; the result adds the break and the block's payload pointer;
\* wild: the header of the new block was written below the arena
V3_extend_heap(s, b, words, ok) ==
    LET size == IF words % 2 = 1 THEN (words + 1) * WORD ELSE words * WORD
    IN  With(sbrk(b, size, ok), LAMBDA k :
        LET bp == k.ret
        IN  IF bp = SBRK_FAILED
            THEN [m |-> s.m, flp |-> s.flp, brk |-> k.brk, bp |-> NULL, wild |-> FALSE]
            ELSE With(PUT(s.m, HDRP(bp), PACK(size, 0)), LAMBDA m1 :
                 With(PUT(m1, FTRP(m1, bp), PACK(size, 0)), LAMBDA m2 :
                 With(PUT(m2, HDRP(NXT_BLOCK(m2, bp)), PACK(0, 1)), LAMBDA m3 :
                 With(V3_coalesce([m |-> m3, flp |-> s.flp], bp), LAMBDA c :
                 [m |-> c.m, flp |-> c.flp, brk |-> k.brk, bp |-> c.bp,
                  wild |-> HDRP(bp) < InitBreak])))))

V3_mminit(s, b, ok1, ok2) ==
    With(sbrk(b, 4 * WORD, ok1), LAMBDA k :
    LET hlp0 == k.ret
    IN  IF hlp0 = SBRK_FAILED
        THEN [m |-> s.m, flp |-> s.flp, brk |-> k.brk, hlp |-> hlp0, ret |-> 0 - 1]
        ELSE With(PUT(PUT(PUT(PUT(s.m, hlp0, 0),
                              hlp0 + WORD, PACK(DWORD, 1)),
                          hlp0 + (2 * WORD), PACK(DWORD, 1)),
                      hlp0 + (3 * WORD), PACK(0, 1)), LAMBDA m4 :
             With(V3_extend_heap([m |-> m4, flp |-> NULL], k.brk,
                                 CHUNKSIZE \div WORD, ok2), LAMBDA e :
             [m |-> e.m, flp |-> e.flp, brk |-> e.brk, hlp |-> hlp0 + (2 * WORD),
              ret |-> IF e.bp = NULL THEN 0 - 1 ELSE 0])))

RECURSIVE V3_find_fit_from(_, _, _)
V3_find_fit_from(m, bp, size) ==
    IF bp # NULL
    THEN IF size <= GET_SIZE(m, HDRP(bp))
         THEN bp
         ELSE V3_find_fit_from(m, GET_NXT_PTR(m, bp), size)
    ELSE NULL

V3_find_fit(s, size) == V3_find_fit_from(s.m, s.flp, size)

V3_place(s, bp, size) ==
    LET asize == GET_SIZE(s.m, HDRP(bp))
    IN  With(delete_node(s, bp), LAMBDA s1 :
        IF asize - size >= 2 * DWORD
        THEN With(PUT(s1.m, HDRP(bp), PACK(size, 1)), LAMBDA m1 :
             With(PUT(m1, FTRP(m1, bp), PACK(size, 1)), LAMBDA m2 :
             With(PUT(m2, HDRP(NXT_BLOCK(m2, bp)), PACK(asize - size, 0)), LAMBDA m3 :
             With(PUT(m3, FTRP(m3, NXT_BLOCK(m3, bp)), PACK(asize - size, 0)), LAMBDA m4 :
             insert_node([m |-> m4, flp |-> s1.flp], NXT_BLOCK(m4, bp))))))
        ELSE With(PUT(s1.m, HDRP(bp), PACK(asize, 1)), LAMBDA m1 :
             [m |-> PUT(m1, FTRP(m1, bp), PACK(asize, 1)), flp |-> s1.flp]))

\* the heap h = [m, flp, brk, hlp]; ok = the host's answers to the sbrk calls;
\* i = the heap after the lazy initialisation
V3_my_malloc(h, size, ok) ==
    With(IF h.hlp = 0
         THEN V3_mminit([m |-> h.m, flp |-> h.flp], h.brk, ok[1], ok[2])
         ELSE [m |-> h.m, flp |-> h.flp, brk |-> h.brk, hlp |-> h.hlp, ret |-> 0],
         LAMBDA i :
    LET asize == AdjustedSize(size)
    IN  IF size <= 0
        THEN [m |-> i.m, flp |-> i.flp, brk |-> i.brk, hlp |-> i.hlp,
              ret |-> NULL, fault |-> "none"]
        ELSE With(V3_find_fit([m |-> i.m, flp |-> i.flp], asize), LAMBDA bp :
             IF bp # NULL
             THEN With(V3_place([m |-> i.m, flp |-> i.flp], bp, asize), LAMBDA pf :
                  [m |-> pf.m, flp |-> pf.flp, brk |-> i.brk, hlp |-> i.hlp,
                   ret |-> bp, fault |-> "none"])
             ELSE With(V3_extend_heap([m |-> i.m, flp |-> i.flp], i.brk,
                                      Max(asize, CHUNKSIZE) \div WORD, ok[3]),
                       LAMBDA e :
                  IF e.wild
                  THEN \* mminit failed, so no prologue lies below the new block:
                       \* the header went below the arena and coalesce read the
                       \* words there
                       [m |-> e.m, flp |-> e.flp, brk |-> e.brk, hlp |-> i.hlp,
                        ret |-> NULL, fault |-> "wild"]
                  ELSE IF e.bp # NULL
                  THEN With(V3_place([m |-> e.m, flp |-> e.flp], e.bp, asize),
                            LAMBDA pe :
                       [m |-> pe.m, flp |-> pe.flp, brk |-> e.brk, hlp |-> i.hlp,
                        ret |-> e.bp, fault |-> "none"])
                  ELSE [m |-> e.m, flp |-> e.flp, brk |-> e.brk, hlp |-> i.hlp,
                        ret |-> NULL, fault |-> "none"])))

\* a my_free that marks the block free and never puts it on the free list
V3_my_free_unlisted(s, bp) ==
    LET size == GET_SIZE(s.m, HDRP(bp))
    IN  With(PUT(s.m, HDRP(bp), PACK(size, 0)), LAMBDA m1 :
        [m |-> PUT(m1, FTRP(m1, bp), PACK(size, 0)), flp |-> s.flp])

V3_my_free(s, bp) ==
    LET size == GET_SIZE(s.m, HDRP(bp))
    IN  With(PUT(s.m, HDRP(bp), PACK(size, 0)), LAMBDA m1 :
        With(PUT(m1, FTRP(m1, bp), PACK(size, 0)), LAMBDA m2 :
        With(V3_coalesce([m |-> m2, flp |-> s.flp], bp), LAMBDA c :
        [m |-> c.m, flp |-> c.flp])))

\* a memcpy that copies nothing
memcpy_none(m, dst, src, n) == m

\* memcpy(dst, src, n), word by word (a last partial word is copied whole)
memcpy(m, dst, src, n) ==
    [a \in {dst + (WORD * k) : k \in 0 .. (((n + WORD - 1) \div WORD) - 1)}
        |-> GET(m, src + (a - dst))] @@ m

\* my_realloc, shrink: split in place and free the tail with coalesce
V3_realloc_split(h, ptr, asize) ==
    LET old_size == GET_SIZE(h.m, HDRP(ptr))
    IN  With(PUT(h.m, HDRP(ptr), PACK(asize, 1)), LAMBDA k1 :
        With(PUT(k1, FTRP(k1, ptr), PACK(asize, 1)), LAMBDA k2 :
        With(NXT_BLOCK(k2, ptr), LAMBDA next_ptr :
        With(PUT(k2, HDRP(next_ptr), PACK(old_size - asize, 0)), LAMBDA k3 :
        With(PUT(k3, FTRP(k3, next_ptr), PACK(old_size - asize, 0)), LAMBDA k4 :
        With(V3_coalesce([m |-> k4, flp |-> h.flp], next_ptr), LAMBDA kc :
        [m |-> kc.m, flp |-> kc.flp, brk |-> h.brk, hlp |-> h.hlp,
         ret |-> ptr, fault |-> "none"]))))))

\* my_realloc, grow: merge with the free next block where the block lies
V3_realloc_merge(h, ptr, asize) ==
    LET old_size == GET_SIZE(h.m, HDRP(ptr))
        next_size == GET_SIZE(h.m, HDRP(NXT_BLOCK(h.m, ptr)))
        total_avail == old_size + next_size
    IN  With(delete_node([m |-> h.m, flp |-> h.flp], NXT_BLOCK(h.m, ptr)), LAMBDA d :
        IF total_avail - asize >= 2 * DWORD
        THEN With(PUT(d.m, HDRP(ptr), PACK(asize, 1)), LAMBDA g1 :
             With(PUT(g1, FTRP(g1, ptr), PACK(asize, 1)), LAMBDA g2 :
             With(NXT_BLOCK(g2, ptr), LAMBDA remainder_ptr :
             With(PUT(g2, HDRP(remainder_ptr), PACK(total_avail - asize, 0)), LAMBDA g3 :
             With(PUT(g3, FTRP(g3, remainder_ptr), PACK(total_avail - asize, 0)), LAMBDA g4 :
             With(insert_node([m |-> g4, flp |-> d.flp], remainder_ptr), LAMBDA gi :
             [m |-> gi.m, flp |-> gi.flp, brk |-> h.brk, hlp |-> h.hlp,
              ret |-> ptr, fault |-> "none"]))))))
        ELSE With(PUT(d.m, HDRP(ptr), PACK(total_avail, 1)), LAMBDA a1 :
             [m |-> PUT(a1, FTRP(a1, ptr), PACK(total_avail, 1)), flp |-> d.flp,
              brk |-> h.brk, hlp |-> h.hlp, ret |-> ptr, fault |-> "none"]))

\* my_realloc, fallback: allocate a new block, copy, free the old one
V3_realloc_move(h, ptr, size, ok) ==
    LET old_size == GET_SIZE(h.m, HDRP(ptr))
        copy_size == IF size < old_size - DWORD THEN size ELSE old_size - DWORD
    IN  With(V3_my_malloc(h, size, ok), LAMBDA n :
        IF n.ret = NULL
        THEN n
        ELSE With(V3_my_free([m |-> memcpy(n.m, n.ret, ptr, copy_size),
                              flp |-> n.flp], ptr), LAMBDA f :
             [m |-> f.m, flp |-> f.flp, brk |-> n.brk, hlp |-> n.hlp,
              ret |-> n.ret, fault |-> "none"]))

\* a my_realloc that never works in place: it always allocates, copies, frees
V3_my_realloc_never_in_place(h, ptr, size, ok) ==
    IF size = 0 \/ ptr = NULL
    THEN V3_my_malloc(h, size, ok)
    ELSE V3_realloc_move(h, ptr, size, ok)

\* a my_realloc that tries the merge with the next block whenever it does not
\* split, also when the block is already large enough
V3_my_realloc_merge_first(h, ptr, size, ok) ==
    LET asize == AdjustedSize(size)
        old_size == GET_SIZE(h.m, HDRP(ptr))
        next_alloc == GET_ALLOC(h.m, HDRP(NXT_BLOCK(h.m, ptr)))
        next_size == GET_SIZE(h.m, HDRP(NXT_BLOCK(h.m, ptr)))
    IN  IF size = 0 \/ ptr = NULL
        THEN V3_my_malloc(h, size, ok)
        ELSE IF asize <= old_size /\ old_size - asize >= 2 * DWORD
        THEN V3_realloc_split(h, ptr, asize)
        ELSE IF next_alloc = 0 /\ old_size + next_size >= asize
        THEN V3_realloc_merge(h, ptr, asize)
        ELSE V3_realloc_move(h, ptr, size, ok)

V3_my_realloc(h, ptr, size, ok) ==
    LET asize == AdjustedSize(size)
        old_size == GET_SIZE(h.m, HDRP(ptr))
        next_alloc == GET_ALLOC(h.m, HDRP(NXT_BLOCK(h.m, ptr)))
        next_size == GET_SIZE(h.m, HDRP(NXT_BLOCK(h.m, ptr)))
        total_avail == old_size + next_size
    IN  IF size = 0
        THEN IF ptr = NULL
             THEN \* my_free(NULL) reads the header at NULL - WORD
                  [m |-> h.m, flp |-> h.flp, brk |-> h.brk, hlp |-> h.hlp,
                   ret |-> NULL, fault |-> "segv"]
             ELSE With(V3_my_free([m |-> h.m, flp |-> h.flp], ptr), LAMBDA f0 :
                  [m |-> f0.m, flp |-> f0.flp, brk |-> h.brk, hlp |-> h.hlp,
                   ret |-> NULL, fault |-> "none"])
        ELSE IF ptr = NULL
        THEN V3_my_malloc(h, size, ok)
        ELSE IF asize <= old_size
        THEN \* shrink or no change
             IF old_size - asize >= 2 * DWORD
             THEN V3_realloc_split(h, ptr, asize)
             ELSE [m |-> h.m, flp |-> h.flp, brk |-> h.brk, hlp |-> h.hlp,
                   ret |-> ptr, fault |-> "none"]
        ELSE IF next_alloc = 0 /\ total_avail >= asize
        THEN V3_realloc_merge(h, ptr, asize)
        ELSE V3_realloc_move(h, ptr, size, ok)

(***************************************************************************)
(* V1: one list of all blocks.  st = [hdr, head, tail, brk]; a header_t is *)
(* [size, free, next] and lies at its address in hdr.                      *)
(***************************************************************************)
\* sizeof(header_t): a size_t, an unsigned, padding and a pointer, in a union
\* with char[24]
HEADER_SIZE == 24

\* a pthread_mutex_lock that does not wait for the mutex
pthread_mutex_lock_no_wait(l, t) == [granted |-> TRUE, lock |-> t]

\* pthread_mutex_lock(&global_lock) called by thread t while the mutex is l
\* (0 = unlocked): it returns, with t the owner, once the mutex is unlocked
pthread_mutex_lock(l, t) == [granted |-> l = 0, lock |-> t]

\* a pthread_mutex_unlock that leaves the mutex locked
pthread_mutex_unlock_none(l, t) == l

\* pthread_mutex_unlock(&global_lock) by thread t
pthread_mutex_unlock(l, t) == 0

\* where a thread stands between the pthread_mutex_lock and the
\* pthread_mutex_unlock of malloc and of free
MallocLocked == {"malloc_search", "malloc_reuse", "malloc_sbrk", "malloc_link"}
FreeLocked == {"free_check", "free_unlink", "free_shrink", "free_flag"}
MallocPcs == {"malloc_lock"} \cup MallocLocked

Threads == 1 .. NThreads
\* a thread outside malloc and free
IdleThread == [pc |-> "idle", arg |-> 0, header |-> NULL]

RECURSIVE get_free_block_from(_, _, _)
get_free_block_from(h, curr, size) ==
    IF curr = NULL THEN NULL
    ELSE IF h[curr].free = 1 /\ h[curr].size >= size THEN curr
    ELSE get_free_block_from(h, h[curr].next, size)

get_free_block(st, size) == get_free_block_from(st.hdr, st.head, size)

V1_malloc(st, size, ok) ==
    IF size = 0
    THEN [hdr |-> st.hdr, head |-> st.head, tail |-> st.tail, brk |-> st.brk,
          ret |-> NULL]
    ELSE With(get_free_block(st, size), LAMBDA header :
         IF header # NULL
         THEN [hdr |-> [st.hdr EXCEPT ![header].free = 0], head |-> st.head,
               tail |-> st.tail, brk |-> st.brk, ret |-> header + HEADER_SIZE]
         ELSE With(sbrk(st.brk, size + HEADER_SIZE, ok), LAMBDA s :
              LET block == s.ret
              IN  IF block = SBRK_FAILED
                  THEN [hdr |-> st.hdr, head |-> st.head, tail |-> st.tail,
                        brk |-> s.brk, ret |-> NULL]
                  ELSE [hdr |-> (block :> [size |-> size, free |-> 0, next |-> NULL])
                                  @@ (IF st.tail # NULL
                                      THEN [st.hdr EXCEPT ![st.tail].next = block]
                                      ELSE st.hdr),
                        head |-> IF st.head = NULL THEN block ELSE st.head,
                        tail |-> block, brk |-> s.brk,
                        ret |-> block + HEADER_SIZE]))

\* the loop of free over the list: the node whose next is tail loses its next
\* and becomes the tail
RECURSIVE V1_drop_tail(_, _)
V1_drop_tail(st, tmp) ==
    IF tmp = NULL THEN st
    ELSE IF st.hdr[tmp].next = st.tail
    THEN V1_drop_tail([hdr |-> [st.hdr EXCEPT ![tmp].next = NULL], head |-> st.head,
                       tail |-> tmp, brk |-> st.brk], NULL)
    ELSE V1_drop_tail(st, st.hdr[tmp].next)

\* ok = the host's answer to the sbrk call of the tail release when it asks
\* for more; 0 - sizeof(header_t) + size is computed in size_t and handed to
\* sbrk as an intptr_t: size - sizeof(header_t)
V1_free(st, block, ok) ==
    IF block = NULL THEN st
    ELSE LET header == block - HEADER_SIZE
             programbreak == st.brk
             size == st.hdr[header].size
         IN  IF block + size = programbreak
             THEN With(IF st.head = st.tail
                       THEN [hdr |-> st.hdr, head |-> NULL, tail |-> NULL,
                             brk |-> st.brk]
                       ELSE V1_drop_tail(st, st.head), LAMBDA u :
                  [hdr |-> u.hdr, head |-> u.head, tail |-> u.tail,
                   brk |-> sbrk(st.brk, (0 - HEADER_SIZE) + size,
                                ok \/ size <= HEADER_SIZE).brk])
             ELSE [hdr |-> [st.hdr EXCEPT ![header].free = 1], head |-> st.head,
                   tail |-> st.tail, brk |-> st.brk]

(***************************************************************************)
(* V4: buddy allocator.  Block pointers are addresses inside the arena     *)
(* [HeapStart, HeapStart + RAM_SIZE); st = [node, fl] is the memory of the *)
(* block_t nodes and the array free_list.                                  *)
(***************************************************************************)
RAM_SIZE == PAGE_SIZE * (2 ^ MAX_ORDER)
\* the address malloc(RAM_SIZE) returns
HeapStart == (16 * PAGE_SIZE) + DWORD
Orders == 0 .. MAX_ORDER
PageAddrs == {HeapStart + (PAGE_SIZE * i) : i \in 0 .. ((2 ^ MAX_ORDER) - 1)}
\* what the bytes of a node may hold before the allocator first writes them
Garbage == {[next |-> NULL, prev |-> NULL, order |-> o, is_free |-> f] :
               o \in Orders, f \in {0, 1}}

\* a ^ b on unsigned integers
RECURSIVE BitXor(_, _)
BitXor(a, b) ==
    IF a = 0 THEN b
    ELSE IF b = 0 THEN a
    ELSE (2 * BitXor(a \div 2, b \div 2)) + ((a + b) % 2)

\* PAGE_SIZE << k
Shl(k) == PAGE_SIZE * (2 ^ k)

\* list_add without the back link of the old head
list_add_no_back_link(st, block, order) ==
    [node |-> [st.node EXCEPT ![block] =
                  [next |-> st.fl[order], prev |-> NULL, order |-> order, is_free |-> 1]],
     fl |-> [st.fl EXCEPT ![order] = block]]

list_add(st, block, order) ==
    LET n1 == [st.node EXCEPT ![block] =
                  [next |-> st.fl[order], prev |-> NULL, order |-> order, is_free |-> 1]]
        n2 == IF st.fl[order] # NULL
              THEN [n1 EXCEPT ![st.fl[order]].prev = block]
              ELSE n1
    IN  [node |-> n2, fl |-> [st.fl EXCEPT ![order] = block]]

\* list_remove that leaves the block where it is
list_remove_none(st, block) == st

list_remove(st, block) ==
    LET b == st.node[block]
        n1 == IF b.prev # NULL
              THEN [st.node EXCEPT ![b.prev].next = b.next]
              ELSE st.node
        fl1 == IF b.prev # NULL
               THEN st.fl
               ELSE [st.fl EXCEPT ![b.order] = b.next]
        n2 == IF n1[block].next # NULL
              THEN [n1 EXCEPT ![n1[block].next].prev = n1[block].prev]
              ELSE n1
        n3 == [n2 EXCEPT ![block].next = NULL, ![block].prev = NULL, ![block].is_free = 0]
    IN  [node |-> n3, fl |-> fl1]

\* g = what the bytes of the fresh arena hold
buddy_init(g) ==
    LET n0 == [a \in PageAddrs |-> g]
        root_block == HeapStart
        n1 == [n0 EXCEPT ![root_block] =
                  [next |-> NULL, prev |-> NULL, order |-> MAX_ORDER, is_free |-> 1]]
    IN  [node |-> n1,
         fl |-> [i \in Orders |-> IF i = MAX_ORDER THEN root_block ELSE NULL]]

\* an inner loop that splits once at most
buddy_split_once(st, block, curr_order, req_order) ==
    With(IF curr_order > req_order
         THEN list_add(st, block + Shl(curr_order - 1), curr_order - 1)
         ELSE st, LAMBDA s2 :
    [node |-> [s2.node EXCEPT ![block].is_free = 0, ![block].order = req_order],
     fl |-> s2.fl])

\* the inner loop of buddy_alloc: split block down to req_order
RECURSIVE buddy_split(_, _, _, _)
buddy_split(st, block, curr_order, req_order) ==
    IF curr_order > req_order
    THEN buddy_split(list_add(st, block + Shl(curr_order - 1), curr_order - 1),
                     block, curr_order - 1, req_order)
    ELSE [node |-> [st.node EXCEPT ![block].is_free = 0, ![block].order = curr_order],
          fl |-> st.fl]

\* the outer loop of buddy_alloc, curr_order being a uint8_t
RECURSIVE buddy_alloc_from(_, _, _)
buddy_alloc_from(st, curr_order, req_order) ==
    IF curr_order <= MAX_ORDER
    THEN IF st.fl[curr_order] # NULL
         THEN LET block == st.fl[curr_order]
                  r == buddy_split(list_remove(st, block), block, curr_order, req_order)
              IN  [node |-> r.node, fl |-> r.fl, ret |-> block]
         ELSE buddy_alloc_from(st, (curr_order + 1) % 256, req_order)
    ELSE [node |-> st.node, fl |-> st.fl, ret |-> NULL]

\* a buddy_alloc that looks at the free list of req_order only
buddy_alloc_exact(st, req_order) ==
    IF req_order \in Orders /\ st.fl[req_order] # NULL
    THEN buddy_alloc_from(st, req_order, req_order)
    ELSE [node |-> st.node, fl |-> st.fl, ret |-> NULL]

\* req_order is an int8_t, converted to uint8_t to start the loop
buddy_alloc(st, req_order) == buddy_alloc_from(st, req_order % 256, req_order)

\* buddy_free that never merges
buddy_merge_never(st, block, curr_order) == list_add(st, block, curr_order)

\* buddy_free that merges once at most
buddy_merge_once(st, block, curr_order) ==
    IF curr_order < MAX_ORDER
    THEN LET buddy == HeapStart + BitXor(block - HeapStart, Shl(curr_order))
         IN  IF st.node[buddy].is_free = 0 \/ st.node[buddy].order # curr_order
             THEN list_add(st, block, curr_order)
             ELSE list_add(list_remove(st, buddy),
                           IF buddy < block THEN buddy ELSE block, curr_order + 1)
    ELSE list_add(st, block, curr_order)

\* the loop of buddy_free
RECURSIVE buddy_merge(_, _, _)
buddy_merge(st, block, curr_order) ==
    IF curr_order < MAX_ORDER
    THEN LET block_size == Shl(curr_order)
             offset == block - HeapStart
             buddy_offset == BitXor(offset, block_size)
             buddy == HeapStart + buddy_offset
         IN  IF st.node[buddy].is_free = 0 \/ st.node[buddy].order # curr_order
             THEN list_add(st, block, curr_order)
             ELSE LET r == list_remove(st, buddy)
                      blk == IF buddy < block THEN buddy ELSE block
                  IN  buddy_merge([node |-> [r.node EXCEPT ![blk].order = curr_order + 1],
                                   fl |-> r.fl],
                                  blk, curr_order + 1)
    ELSE list_add(st, block, curr_order)

buddy_free(st, ptr) ==
    IF ptr = NULL THEN st
    ELSE buddy_merge(st, ptr, st.node[ptr].order)

(***************************************************************************)
(* V5: slab allocator.  Caches and slabs live in the host's heap and are   *)
(* named by ids (0 = NULL); z = [node, fl, caches, slabs] is the state of  *)
(* the buddy arena and of the slab bookkeeping.                            *)
(***************************************************************************)
\* the id the host's malloc hands out next: the least one not in use
NewId(f) == CHOOSE i \in 1 .. (Cardinality(DOMAIN f) + 1) : i \notin DOMAIN f

\* the address the host's malloc gives the slab_t made for the page at
\* page_start: slabs of distinct pages are distinct objects
SlabId(page_start) == ((page_start - HeapStart) \div PAGE_SIZE) + 1

\* the uint32_t bitmap of a slab is held as the set of the positions of its
\* set bits, 0 .. 31, so that bit 31 is a bit like the others
\* (bitmap >> i) & 1
Bit(bitmap, i) == IF i \in bitmap THEN 1 ELSE 0
\* bitmap | (1 << slot); for slot 31 the int 1 << 31 is the sign bit, which
\* the conversion to uint32_t makes bit 31
SetBit(bitmap, slot) == bitmap \cup {slot}
\* a free that leaves the bit set
ClearBit_none(bitmap, slot) == bitmap

\* bitmap & ~(1 << slot)
ClearBit(bitmap, slot) == bitmap \ {slot}

\* a kmem_cache_create without the clamp to the width of the bitmap
kmem_cache_create_unclamped(size) ==
    [slabs_partial |-> NULL, slabs_full |-> NULL, slabs_free |-> NULL,
     obj_size |-> size,
     objects_per_slab |-> PAGE_SIZE \div size]

kmem_cache_create(size) ==
    LET n == PAGE_SIZE \div size
    IN  [slabs_partial |-> NULL, slabs_full |-> NULL, slabs_free |-> NULL,
         obj_size |-> size,
         objects_per_slab |-> IF n > 32 THEN 32 ELSE n]

\* a slab_create that counts one free object too many
slab_create_one_more(z, c) ==
    With(buddy_alloc([node |-> z.node, fl |-> z.fl], 0), LAMBDA a :
    IF a.ret = NULL
    THEN [node |-> a.node, fl |-> a.fl, caches |-> z.caches, slabs |-> z.slabs,
          slab |-> NULL]
    ELSE [node |-> a.node, fl |-> a.fl, caches |-> z.caches,
          slabs |-> (SlabId(a.ret) :> [next |-> NULL, page_start |-> a.ret,
                                       free_count |-> z.caches[c].objects_per_slab + 1,
                                       bitmap |-> {}]) @@ z.slabs,
          slab |-> SlabId(a.ret)])

\* the new state and the id of the new slab, NULL when buddy_alloc fails
slab_create(z, c) ==
    With(buddy_alloc([node |-> z.node, fl |-> z.fl], 0), LAMBDA a :
    IF a.ret = NULL
    THEN [node |-> a.node, fl |-> a.fl, caches |-> z.caches, slabs |-> z.slabs,
          slab |-> NULL]
    ELSE [node |-> a.node, fl |-> a.fl, caches |-> z.caches,
          slabs |-> (SlabId(a.ret) :> [next |-> NULL, page_start |-> a.ret,
                                       free_count |-> z.caches[c].objects_per_slab,
                                       bitmap |-> {}]) @@ z.slabs,
          slab |-> SlabId(a.ret)])

\* a search that takes slot 0 only when no other slot is clear
first_clear_from_one(bitmap, i, n) ==
    LET S == {k \in 1 .. (n - 1) : Bit(bitmap, k) = 0}
    IN  IF S # {} THEN CHOOSE k \in S : \A j \in S : k <= j
        ELSE IF n > 0 /\ Bit(bitmap, 0) = 0 THEN 0
        ELSE 0 - 1

\* the for loop of kmem_cache_alloc: the first clear bit from i on, or -1
RECURSIVE first_clear(_, _, _)
first_clear(bitmap, i, n) ==
    IF i < n
    THEN IF Bit(bitmap, i) = 0 THEN i ELSE first_clear(bitmap, i + 1, n)
    ELSE 0 - 1

\* an obj_ptr that forgets to scale the slot by the object size
ObjPtr_unscaled(page_start, slot, obj_size) == page_start + slot

\* obj_ptr = (char *)slab->page_start + (slot * cache->obj_size)
ObjPtr(page_start, slot, obj_size) == page_start + (slot * obj_size)

\* a choice of slab that takes a new page even though a slab is on free
kmem_cache_alloc_slab_no_free(z, c) ==
    LET cache == z.caches[c]
    IN  IF cache.slabs_partial # NULL
        THEN [node |-> z.node, fl |-> z.fl, caches |-> z.caches, slabs |-> z.slabs,
              slab |-> cache.slabs_partial]
        ELSE With(slab_create(z, c), LAMBDA created :
             IF created.slab = NULL
             THEN created
             ELSE [node |-> created.node, fl |-> created.fl,
                   caches |-> [created.caches EXCEPT ![c].slabs_partial = created.slab],
                   slabs |-> [created.slabs EXCEPT
                                 ![created.slab].next = cache.slabs_partial],
                   slab |-> created.slab])

\* the first part of kmem_cache_alloc: the state after the slab is chosen,
\* and the chosen slab
kmem_cache_alloc_slab(z, c) ==
    LET cache == z.caches[c]
    IN  IF cache.slabs_partial # NULL
        THEN [node |-> z.node, fl |-> z.fl, caches |-> z.caches, slabs |-> z.slabs,
              slab |-> cache.slabs_partial]
        ELSE IF cache.slabs_free # NULL
        THEN [node |-> z.node, fl |-> z.fl,
              caches |-> [z.caches EXCEPT
                            ![c].slabs_free = z.slabs[cache.slabs_free].next,
                            ![c].slabs_partial = cache.slabs_free],
              slabs |-> [z.slabs EXCEPT
                            ![cache.slabs_free].next = cache.slabs_partial],
              slab |-> cache.slabs_free]
        ELSE With(slab_create(z, c), LAMBDA created :
             IF created.slab = NULL
             THEN created
             ELSE [node |-> created.node, fl |-> created.fl,
                   caches |-> [created.caches EXCEPT ![c].slabs_partial = created.slab],
                   slabs |-> [created.slabs EXCEPT
                                 ![created.slab].next = cache.slabs_partial],
                   slab |-> created.slab])

kmem_cache_alloc(z, c) ==
    With(kmem_cache_alloc_slab(z, c), LAMBDA z1 :
    LET cache == z.caches[c]
        slab == z1.slab
        slot == first_clear(z1.slabs[slab].bitmap, 0, cache.objects_per_slab)
        obj_ptr == ObjPtr(z1.slabs[slab].page_start, slot, cache.obj_size)
    IN  IF slab = NULL
        THEN [node |-> z1.node, fl |-> z1.fl, caches |-> z1.caches, slabs |-> z1.slabs,
              ret |-> NULL]
        ELSE IF slot = 0 - 1
        THEN [node |-> z1.node, fl |-> z1.fl, caches |-> z1.caches, slabs |-> z1.slabs,
              ret |-> NULL]
        ELSE With([z1.slabs EXCEPT ![slab].bitmap = SetBit(@, slot),
                                   ![slab].free_count = @ - 1], LAMBDA sl2 :
             IF sl2[slab].free_count = 0
             THEN [node |-> z1.node, fl |-> z1.fl,
                   caches |-> [z1.caches EXCEPT ![c].slabs_partial = sl2[slab].next,
                                                ![c].slabs_full = slab],
                   slabs |-> [sl2 EXCEPT ![slab].next = z1.caches[c].slabs_full],
                   ret |-> obj_ptr]
             ELSE [node |-> z1.node, fl |-> z1.fl, caches |-> z1.caches, slabs |-> sl2,
                   ret |-> obj_ptr]))

\* [slab, prev]: prev is written only when a slab is found
RECURSIVE find_slab_from(_, _, _, _, _)
find_slab_from(sl, ptr, curr, prev, prev0) ==
    IF curr # NULL
    THEN IF ptr >= sl[curr].page_start /\ ptr < sl[curr].page_start + PAGE_SIZE
         THEN [slab |-> curr, prev |-> prev]
         ELSE find_slab_from(sl, ptr, sl[curr].next, curr, prev0)
    ELSE [slab |-> NULL, prev |-> prev0]

\* prev0 = what *prev_ptr holds before the call
find_slab(sl, ptr, first, prev0) == find_slab_from(sl, ptr, first, NULL, prev0)

\* the list surgery of kmem_cache_free: slab, whose predecessor is prev,
\* leaves the list `from` and becomes the head of the list `to`
slab_move(z, c, sl1, slab, prev, from, to) ==
    With(IF prev # NULL
         THEN [sl1 EXCEPT ![prev].next = sl1[slab].next]
         ELSE sl1, LAMBDA sl2 :
    With(IF prev # NULL
         THEN z.caches
         ELSE [z.caches EXCEPT ![c][from] = sl1[slab].next], LAMBDA c2 :
    [node |-> z.node, fl |-> z.fl,
     caches |-> [c2 EXCEPT ![c][to] = slab],
     slabs |-> [sl2 EXCEPT ![slab].next = c2[c][to]]]))

kmem_cache_free(z, c, ptr) ==
    LET cache == z.caches[c]
    IN  IF ptr = NULL THEN z
        ELSE
        With(find_slab(z.slabs, ptr, cache.slabs_partial, NULL), LAMBDA fp :
        With(IF fp.slab # NULL THEN fp
             ELSE find_slab(z.slabs, ptr, cache.slabs_full, fp.prev), LAMBDA f :
        LET from_full_list == IF fp.slab = NULL THEN 1 ELSE 0
            slab == f.slab
            prev == f.prev
            offset == ptr - z.slabs[slab].page_start
            slot == offset \div cache.obj_size
        IN  IF slab = NULL THEN z
            ELSE With([z.slabs EXCEPT ![slab].bitmap = ClearBit(@, slot),
                                      ![slab].free_count = @ + 1], LAMBDA sl1 :
                 IF from_full_list = 1
                 THEN slab_move(z, c, sl1, slab, prev, "slabs_full", "slabs_partial")
                 ELSE IF sl1[slab].free_count = cache.objects_per_slab
                 THEN slab_move(z, c, sl1, slab, prev, "slabs_partial", "slabs_free")
                 ELSE [node |-> z.node, fl |-> z.fl, caches |-> z.caches,
                       slabs |-> sl1])))

\* z after the slabs from head on are released: their pages go back to the
\* buddy allocator and the slab_t are freed
RECURSIVE free_slab_list(_, _)
free_slab_list(z, first) ==
    IF first # NULL
    THEN With(buddy_free([node |-> z.node, fl |-> z.fl], z.slabs[first].page_start),
              LAMBDA b :
         free_slab_list([node |-> b.node, fl |-> b.fl, caches |-> z.caches,
                         slabs |-> [i \in DOMAIN z.slabs \ {first} |-> z.slabs[i]]],
                        z.slabs[first].next))
    ELSE z

kmem_cache_destroy(z, c) ==
    With(free_slab_list(free_slab_list(free_slab_list(z, z.caches[c].slabs_full),
                                       z.caches[c].slabs_partial),
                        z.caches[c].slabs_free), LAMBDA z3 :
    [node |-> z3.node, fl |-> z3.fl, slabs |-> z3.slabs,
     caches |-> [i \in DOMAIN z.caches \ {c} |-> z.caches[i]]])

(***************************************************************************)
(* The words of the V2/V3 heap the allocator owns: the tags of the blocks  *)
(* met by walking the heap from heap_list_p as find_fit does, and the link *)
(* words of the free blocks (V3).  Every other word is forgotten after     *)
(* each call and reads as junk.                                            *)
(***************************************************************************)
RECURSIVE WalkFrom(_, _, _)
WalkFrom(m, bp, b) ==
    IF bp < b /\ bp >= InitBreak /\ GET_SIZE(m, HDRP(bp)) > 0
    THEN <<bp>> \o WalkFrom(m, NXT_BLOCK(m, bp), b)
    ELSE << >>

\* the payload pointers of the blocks between the prologue and the epilogue
Blocks(m, hlp, b) ==
    IF hlp = 0 \/ hlp = SBRK_FAILED THEN << >> ELSE WalkFrom(m, NXT_BLOCK(m, hlp), b)

Range(seq) == {seq[i] : i \in 1 .. Len(seq)}

\* the free list from bp on, at most fuel nodes of it
RECURSIVE ListFrom(_, _, _)
ListFrom(m, bp, fuel) ==
    IF bp # NULL /\ fuel > 0
    THEN <<bp>> \o ListFrom(m, GET_NXT_PTR(m, bp), fuel - 1)
    ELSE << >>

OwnedWords(m, hlp, flp, b) ==
    LET bs == Blocks(m, hlp, b)
        end == IF bs = << >> THEN NXT_BLOCK(m, hlp) ELSE NXT_BLOCK(m, bs[Len(bs)])
        nodes == Range(ListFrom(m, flp, Len(bs) + 2))
                   \cup {bp \in Range(bs) : variant = "V3" /\ GET_ALLOC(m, HDRP(bp)) = 0}
    IN  {hlp - DWORD, hlp - WORD, hlp, HDRP(end), b - WORD}
          \cup UNION {{HDRP(bp), FTRP(m, bp)} : bp \in Range(bs)}
          \cup UNION {{bp, bp + WORD} : bp \in nodes}

\* the words of the payloads the callers hold: the first n bytes of each
\* outstanding allocation lv = [p, n]
PayloadWords(lv) ==
    UNION {{a.p + (WORD * k) : k \in 0 .. (((a.n + WORD - 1) \div WORD) - 1)} : a \in lv}

\* what the caller of my_malloc(n) writes into the n bytes at p it was given:
\* every word gets a value that names its place in the block
Fill(m, p, n) ==
    IF p = NULL THEN m
    ELSE [a \in PayloadWords({[p |-> p, n |-> n]}) |-> (a - p) + 7] @@ m

\* of the n bytes at p that my_realloc hands back, those past the first `had`
\* were never written by the caller: they are indeterminate and read as junk
Indeterminate(m, p, had, n) ==
    IF p = NULL THEN m
    ELSE [a \in DOMAIN m \ (PayloadWords({[p |-> p, n |-> n]})
                               \ PayloadWords({[p |-> p, n |-> had]})) |-> m[a]]

\* lv = the outstanding allocations, whose payloads are the callers' to keep
\* (a payload word that holds junk reads the same kept or forgotten)
Forget(m, hlp, flp, b, lv) ==
    IF hlp = 0 \/ hlp = SBRK_FAILED THEN m
    ELSE [a \in (DOMAIN m \cap OwnedWords(m, hlp, flp, b))
                   \cup {w \in DOMAIN m \cap PayloadWords(lv) : m[w] # junk}
             |-> m[a]]

\* the values a word the allocator does not control may hold
JunkWords == {1, 3 * DWORD}

(***************************************************************************)
(* The nodes of the V4 arena the allocator owns are those at the start of  *)
(* a block, found by stepping from the arena base by the size the order    *)
(* field gives.  The bytes a node left behind inside a larger block are    *)
(* forgotten after each call and read as junk, like the bytes no node was  *)
(* ever written to.                                                        *)
(***************************************************************************)
RECURSIVE BuddyWalk(_, _)
BuddyWalk(n, a) ==
    IF a \in PageAddrs
    THEN {a} \cup (IF n[a].order \in Orders
                   THEN BuddyWalk(n, a + Shl(n[a].order))
                   ELSE {})
    ELSE {}

\* before buddy_init there is no arena to forget
ForgetNodes(n) ==
    IF DOMAIN n = {} THEN n
    ELSE [a \in PageAddrs |-> IF a \in BuddyWalk(n, HeapStart) THEN n[a] ELSE junk]

\* V5: the pages of the slabs sl are blocks of order 0 whatever their first
\* bytes, which the callers own, hold; the walk steps over them by one page
RECURSIVE SlabWalk(_, _, _)
SlabWalk(n, sl, a) ==
    IF a \in PageAddrs
    THEN {a} \cup (IF \E s \in DOMAIN sl : sl[s].page_start = a
                   THEN SlabWalk(n, sl, a + PAGE_SIZE)
                   ELSE IF n[a].order \in Orders
                   THEN SlabWalk(n, sl, a + Shl(n[a].order))
                   ELSE {})
    ELSE {}

ForgetNodes5(n, sl) ==
    IF DOMAIN n = {} THEN n
    ELSE [a \in PageAddrs |-> IF a \in SlabWalk(n, sl, HeapStart) THEN n[a] ELSE junk]

(***************************************************************************)
(* The state machine.                                                      *)
(***************************************************************************)
NoCall == [op |-> "none", p |-> NULL, size |-> 0, ret |-> NULL]
\* a call that does not release what the call just before it handed out
NoPrior == 0 - 1
\* V2/V3: old is the size the block at p had when my_realloc was called;
\* prior is, for a my_free of the pointer that the call just before it, a
\* my_malloc, returned, the size that my_malloc was asked for; freed is, for
\* a my_malloc called just after such a my_free and asked for at most that
\* size, the pointer that my_free released
NoCall23 == [op |-> "none", p |-> NULL, size |-> 0, ret |-> NULL, old |-> 0,
             prior |-> NoPrior, freed |-> NULL]
\* V4: prior is, for a buddy_free of the block that the call just before it, a
\* buddy_alloc, returned, the order that buddy_alloc was asked for; freed is,
\* for a buddy_alloc called just after such a buddy_free and asked for that
\* order, the block that buddy_free released
\* V5: from is, for a kmem_cache_alloc, where it found its slab: "partial",
\* "free", or "new" when both lists were empty; streak is the number of
\* kmem_cache_alloc calls that have returned an object of the cache since
\* kmem_cache_create made it, no other call coming in between; cache is the
\* cache the call was on; run is, for a kmem_cache_alloc, m + 1 when it and
\* the m calls before it were kmem_cache_allocs that returned slots 0 .. m of
\* one slab, in this order, and for a kmem_cache_free that follows such a run
\* and frees a slot j < m of that slab, m + 1 again; freed is, for a
\* kmem_cache_alloc on the same cache right after such a kmem_cache_free, the
\* pointer that was freed
NoCall5 == [op |-> "none", p |-> NULL, size |-> 0, ret |-> NULL, from |-> "none",
            streak |-> NoPrior, cache |-> NULL, run |-> 0, freed |-> NULL]

\* the page an object pointer lies in, and its slot in that page
PageOf(ptr) == ptr - ((ptr - HeapStart) % PAGE_SIZE)
SlotOf(ptr, obj_size) == ((ptr - HeapStart) % PAGE_SIZE) \div obj_size
NoCall4 == [op |-> "none", p |-> NULL, size |-> 0, ret |-> NULL, prior |-> NoPrior,
            freed |-> NULL]

InitVariant(v) ==
    /\ variant = v
    /\ mem = << >>
    /\ junk \in (IF v \in {"V2", "V3"} THEN JunkWords
                 ELSE IF v = "V1" THEN {0} ELSE Garbage)
    /\ brk = InitBreak
    /\ heap_list_p = 0
    /\ free_list_p = 0
    /\ fault = "none"
    /\ live = {}
    /\ last23 = NoCall23
    /\ heap_start = NULL
    /\ node = << >>
    /\ free_list = [i \in Orders |-> NULL]
    /\ held = {}
    /\ last4 = NoCall4
    /\ caches = << >>
    /\ slabs = << >>
    /\ objs = {}
    /\ last5 = NoCall5
    /\ head = NULL
    /\ tail = NULL
    /\ hdr = << >>
    /\ last1 = NoCall
    /\ global_lock = 0
    /\ thr = [t \in Threads |-> IdleThread]

\* the host's answers to the sbrk calls of one call of the allocator: the
\* first two are those of mminit, asked for only while the heap is not set up
SbrkAnswers == {ok \in [1 .. 3 -> BOOLEAN] : heap_list_p # 0 => ok[1] /\ ok[2]}

\* ---- V2
V2_Malloc ==
    /\ variant = "V2" /\ fault = "none"
    /\ Cardinality(live) < MaxLive
    /\ \E size \in ReqSizes \cup {0}, ok \in SbrkAnswers :
         \E r \in {V2_my_malloc(mem, brk, heap_list_p, size, ok)} :
             /\ r.brk <= MaxBreak
             /\ live' = IF r.ret # NULL THEN live \cup {[p |-> r.ret, n |-> size]} ELSE live
             /\ mem' = Forget(Fill(r.m, r.ret, size), r.hlp, NULL, r.brk, live')
             /\ brk' = r.brk
             /\ heap_list_p' = r.hlp
             /\ fault' = r.fault
             /\ last23' = [op |-> "malloc", p |-> NULL, size |-> size, ret |-> r.ret,
                          old |-> 0, prior |-> NoPrior,
                          freed |-> IF size >= 1 /\ size <= last23.prior
                                    THEN last23.p ELSE NULL]
    /\ UNCHANGED <<variant, junk, free_list_p>>
    /\ UNCHANGED vars4 /\ UNCHANGED vars5 /\ UNCHANGED vars1

V2_Free ==
    /\ variant = "V2" /\ fault = "none"
    /\ \E bp \in {a.p : a \in live} \cup {NULL} :
         /\ live' = {a \in live : a.p # bp}
         /\ IF bp = NULL
            THEN \* GET_SIZE(HDRP(bp)) reads the word at NULL - WORD
                 mem' = mem /\ fault' = "segv"
            ELSE /\ mem' = Forget(V2_my_free(mem, bp), heap_list_p, NULL, brk, live')
                 /\ fault' = "none"
         /\ last23' = [op |-> "free", p |-> bp, size |-> 0, ret |-> NULL, old |-> 0,
                      prior |-> IF bp # NULL /\ last23.op = "malloc" /\ last23.ret = bp
                                THEN last23.size ELSE NoPrior,
                      freed |-> NULL]
    /\ UNCHANGED <<variant, junk, brk, heap_list_p, free_list_p>>
    /\ UNCHANGED vars4 /\ UNCHANGED vars5 /\ UNCHANGED vars1

\* ---- V3
Heap3 == [m |-> mem, flp |-> free_list_p, brk |-> brk, hlp |-> heap_list_p]

\* my_malloc called with a size of sizes, by a client whose host refuses to
\* move the break beyond limit
V3_MallocFrom(sizes, limit) ==
    /\ variant = "V3" /\ fault = "none"
    /\ Cardinality(live) < MaxLive
    /\ \E size \in sizes, ok \in SbrkAnswers :
         \E r \in {V3_my_malloc(Heap3, size, ok)} :
             /\ r.brk <= limit
             /\ live' = IF r.ret # NULL THEN live \cup {[p |-> r.ret, n |-> size]} ELSE live
             /\ mem' = Forget(Fill(r.m, r.ret, size), r.hlp, r.flp, r.brk, live')
             /\ free_list_p' = r.flp
             /\ brk' = r.brk
             /\ heap_list_p' = r.hlp
             /\ fault' = r.fault
             /\ last23' = [op |-> "malloc", p |-> NULL, size |-> size, ret |-> r.ret,
                          old |-> 0, prior |-> NoPrior,
                          freed |-> IF size >= 1 /\ size <= last23.prior
                                    THEN last23.p ELSE NULL]
    /\ UNCHANGED <<variant, junk>>
    /\ UNCHANGED vars4 /\ UNCHANGED vars5 /\ UNCHANGED vars1

V3_Malloc == V3_MallocFrom(ReqSizes \cup {0}, MaxBreak)
V3_MallocDeep == V3_MallocFrom(DeepSizes, DeepBreak)

V3_Free ==
    /\ variant = "V3" /\ fault = "none"
    /\ \E bp \in {a.p : a \in live} \cup {NULL} :
         /\ live' = {a \in live : a.p # bp}
         /\ IF bp = NULL
            THEN \* GET_SIZE(HDRP(bp)) reads the word at NULL - WORD
                 mem' = mem /\ free_list_p' = free_list_p /\ fault' = "segv"
            ELSE \E r \in {V3_my_free([m |-> mem, flp |-> free_list_p], bp)} :
                     /\ mem' = Forget(r.m, heap_list_p, r.flp, brk, live')
                     /\ free_list_p' = r.flp
                     /\ fault' = "none"
         /\ last23' = [op |-> "free", p |-> bp, size |-> 0, ret |-> NULL, old |-> 0,
                      prior |-> IF bp # NULL /\ last23.op = "malloc" /\ last23.ret = bp
                                THEN last23.size ELSE NoPrior,
                      freed |-> NULL]
    /\ UNCHANGED <<variant, junk, brk, heap_list_p>>
    /\ UNCHANGED vars4 /\ UNCHANGED vars5 /\ UNCHANGED vars1

V3_Realloc ==
    /\ variant = "V3" /\ fault = "none"
    /\ \E ptr \in {a.p : a \in live} \cup {NULL}, size \in ReqSizes \cup {0},
          ok \in SbrkAnswers :
         \E r \in {V3_my_realloc(Heap3, ptr, size, ok)} :
         LET rest == {a \in live : a.p # ptr}
             \* the bytes the caller had written at ptr
             had == IF ptr = NULL THEN 0 ELSE (CHOOSE a \in live : a.p = ptr).n
         IN  /\ r.brk <= MaxBreak
             /\ ptr = NULL => Cardinality(live) < MaxLive
             /\ live' = IF r.ret # NULL THEN rest \cup {[p |-> r.ret, n |-> size]}
                        ELSE IF size = 0 THEN rest
                        ELSE live
             /\ mem' = Forget(IF ptr = NULL THEN Fill(r.m, r.ret, size)
                              ELSE Indeterminate(r.m, r.ret, had, size),
                              r.hlp, r.flp, r.brk, live')
             /\ free_list_p' = r.flp
             /\ brk' = r.brk
             /\ heap_list_p' = r.hlp
             /\ fault' = r.fault
             /\ last23' = [op |-> "realloc", p |-> ptr, size |-> size, ret |-> r.ret,
                          old |-> IF ptr = NULL THEN 0 ELSE GET_SIZE(mem, HDRP(ptr)),
                          prior |-> NoPrior, freed |-> NULL]
    /\ UNCHANGED <<variant, junk>>
    /\ UNCHANGED vars4 /\ UNCHANGED vars5 /\ UNCHANGED vars1

\* ---- V1
Naive == [hdr |-> hdr, head |-> head, tail |-> tail, brk |-> brk]

\* the host's answers to the sbrk call of one V1 call that asks for incr more
SbrkAnswers1(incr) == {ok \in BOOLEAN : ok => brk + incr <= InitBreak + MaxGrowth}

\* the headers of the list from head; what lies at any other address is no
\* longer the allocator's
RECURSIVE V1_list_from(_, _)
V1_list_from(h, curr) ==
    IF curr = NULL THEN {} ELSE {curr} \cup V1_list_from(h, h[curr].next)

V1_Forget(r) == [a \in V1_list_from(r.hdr, r.head) |-> r.hdr[a]]

V1_Malloc ==
    /\ variant = "V1"
    /\ Cardinality(live) < MaxLive
    /\ \E size \in V1Sizes \cup {0} :
         \E ok \in SbrkAnswers1(size + HEADER_SIZE) :
         \E r \in {V1_malloc(Naive, size, ok)} :
             /\ hdr' = V1_Forget(r)
             /\ head' = r.head
             /\ tail' = r.tail
             /\ brk' = r.brk
             /\ live' = IF r.ret # NULL THEN live \cup {[p |-> r.ret, n |-> size]} ELSE live
             /\ last1' = [op |-> "malloc", p |-> NULL, size |-> size, ret |-> r.ret]
    /\ UNCHANGED <<variant, mem, junk, heap_list_p, free_list_p, fault, last23>>
    /\ UNCHANGED <<global_lock, thr>>
    /\ UNCHANGED vars4 /\ UNCHANGED vars5

V1_Free ==
    /\ variant = "V1"
    /\ \E block \in {a.p : a \in live} \cup {NULL} :
         \E ok \in SbrkAnswers1(IF block = NULL THEN 0
                                 ELSE hdr[block - HEADER_SIZE].size - HEADER_SIZE) :
         \E r \in {V1_free(Naive, block, ok)} :
             /\ hdr' = V1_Forget(r)
             /\ head' = r.head
             /\ tail' = r.tail
             /\ brk' = r.brk
             /\ live' = {a \in live : a.p # block}
             /\ last1' = [op |-> "free", p |-> block, size |-> 0, ret |-> NULL]
    /\ UNCHANGED <<variant, mem, junk, heap_list_p, free_list_p, fault, last23>>
    /\ UNCHANGED <<global_lock, thr>>
    /\ UNCHANGED vars4 /\ UNCHANGED vars5

\* ---- V1, several threads.  thr[t].pc is where thread t stands in malloc
\* or free, arg the size or the block it was called with, header its local
\* variable header (block, in malloc after sbrk); global_lock is 0 or the
\* thread that holds the mutex.  A static pthread_mutex_t is all zeros, an
\* unlocked default mutex.
\* the host's answers to an sbrk call of a thread that asks for incr more
ThreadSbrkAnswers(incr) ==
    {ok \in BOOLEAN : ok => brk + incr <= InitBreak + MaxThreadGrowth}

UnchangedByThreads ==
    /\ UNCHANGED <<variant, mem, junk, heap_list_p, free_list_p, fault, last23>>
    /\ UNCHANGED vars4 /\ UNCHANGED vars5

\* malloc is called: if(!size) return NULL;
malloc_enter(t) ==
    /\ variant = "V1"
    /\ thr[t].pc = "idle"
    /\ Cardinality(live)
         + Cardinality({u \in Threads : thr[u].pc \in MallocPcs}) < MaxThreadLive
    /\ \E size \in ThreadSizes \cup {0} :
         IF size = 0
         THEN /\ last1' = [op |-> "malloc", p |-> NULL, size |-> 0, ret |-> NULL]
              /\ UNCHANGED thr
         ELSE /\ thr' = [thr EXCEPT ![t] = [pc |-> "malloc_lock", arg |-> size,
                                            header |-> NULL]]
              /\ UNCHANGED last1
    /\ UNCHANGED <<head, tail, hdr, brk, live, global_lock>>
    /\ UnchangedByThreads

\* pthread_mutex_lock(&global_lock) of malloc
malloc_lock(t) ==
    /\ variant = "V1"
    /\ thr[t].pc = "malloc_lock"
    /\ pthread_mutex_lock(global_lock, t).granted
    /\ global_lock' = pthread_mutex_lock(global_lock, t).lock
    /\ thr' = [thr EXCEPT ![t].pc = "malloc_search"]
    /\ UNCHANGED <<head, tail, hdr, brk, live, last1>>
    /\ UnchangedByThreads

\* header = get_free_block(size); if (header)
malloc_search(t) ==
    /\ variant = "V1"
    /\ thr[t].pc = "malloc_search"
    /\ \E header \in {get_free_block(Naive, thr[t].arg)} :
         thr' = [thr EXCEPT ![t].header = header,
                            ![t].pc = IF header # NULL THEN "malloc_reuse"
                                      ELSE "malloc_sbrk"]
    /\ UNCHANGED <<head, tail, hdr, brk, live, last1, global_lock>>
    /\ UnchangedByThreads

\* header->s.free = 0; unlock; return (void *)(header + 1);
malloc_reuse(t) ==
    /\ variant = "V1"
    /\ thr[t].pc = "malloc_reuse"
    /\ hdr' = [hdr EXCEPT ![thr[t].header].free = 0]
    /\ global_lock' = pthread_mutex_unlock(global_lock, t)
    /\ live' = live \cup {[p |-> thr[t].header + HEADER_SIZE, n |-> thr[t].arg,
                            t |-> t]}
    /\ last1' = [op |-> "malloc", p |-> NULL, size |-> thr[t].arg,
                 ret |-> thr[t].header + HEADER_SIZE]
    /\ thr' = [thr EXCEPT ![t] = IdleThread]
    /\ UNCHANGED <<head, tail, brk>>
    /\ UnchangedByThreads

\* block = sbrk(total_size); if (block == (void*)-1) { unlock; return NULL; }
malloc_sbrk(t) ==
    /\ variant = "V1"
    /\ thr[t].pc = "malloc_sbrk"
    /\ \E ok \in ThreadSbrkAnswers(thr[t].arg + HEADER_SIZE) :
       \E s \in {sbrk(brk, thr[t].arg + HEADER_SIZE, ok)} :
         /\ brk' = s.brk
         /\ IF s.ret = SBRK_FAILED
            THEN /\ global_lock' = pthread_mutex_unlock(global_lock, t)
                 /\ last1' = [op |-> "malloc", p |-> NULL, size |-> thr[t].arg,
                              ret |-> NULL]
                 /\ thr' = [thr EXCEPT ![t] = IdleThread]
            ELSE /\ thr' = [thr EXCEPT ![t].header = s.ret, ![t].pc = "malloc_link"]
                 /\ UNCHANGED <<global_lock, last1>>
    /\ UNCHANGED <<head, tail, hdr, live>>
    /\ UnchangedByThreads

\* the header is filled in and linked behind tail; unlock; return
malloc_link(t) ==
    /\ variant = "V1"
    /\ thr[t].pc = "malloc_link"
    /\ LET header == thr[t].header
       IN  /\ hdr' = (header :> [size |-> thr[t].arg, free |-> 0, next |-> NULL])
                        @@ (IF tail # NULL
                            THEN [hdr EXCEPT ![tail].next = header]
                            ELSE hdr)
           /\ head' = IF head = NULL THEN header ELSE head
           /\ tail' = header
           /\ live' = live \cup {[p |-> header + HEADER_SIZE, n |-> thr[t].arg,
                                   t |-> t]}
           /\ last1' = [op |-> "malloc", p |-> NULL, size |-> thr[t].arg,
                        ret |-> header + HEADER_SIZE]
    /\ global_lock' = pthread_mutex_unlock(global_lock, t)
    /\ thr' = [thr EXCEPT ![t] = IdleThread]
    /\ UNCHANGED brk
    /\ UnchangedByThreads

\* free is called, with a block the thread holds or with NULL:
\* if(!block) return;
free_enter(t) ==
    /\ variant = "V1"
    /\ thr[t].pc = "idle"
    /\ \E block \in {a.p : a \in {b \in live : b.t = t}} \cup {NULL} :
         IF block = NULL
         THEN /\ last1' = [op |-> "free", p |-> NULL, size |-> 0, ret |-> NULL]
              /\ UNCHANGED <<thr, live>>
         ELSE /\ thr' = [thr EXCEPT ![t] = [pc |-> "free_lock", arg |-> block,
                                            header |-> NULL]]
              /\ live' = {a \in live : ~(a.p = block /\ a.t = t)}
              /\ UNCHANGED last1
    /\ UNCHANGED <<head, tail, hdr, brk, global_lock>>
    /\ UnchangedByThreads

\* pthread_mutex_lock(&global_lock) of free
free_lock(t) ==
    /\ variant = "V1"
    /\ thr[t].pc = "free_lock"
    /\ pthread_mutex_lock(global_lock, t).granted
    /\ global_lock' = pthread_mutex_lock(global_lock, t).lock
    /\ thr' = [thr EXCEPT ![t].pc = "free_check"]
    /\ UNCHANGED <<head, tail, hdr, brk, live, last1>>
    /\ UnchangedByThreads

\* header = block - 1; programbreak = sbrk(0);
\* if((char*)block + header->s.size == programbreak)
free_check(t) ==
    /\ variant = "V1"
    /\ thr[t].pc = "free_check"
    /\ LET header == thr[t].arg - HEADER_SIZE
           programbreak == brk
       IN  thr' = [thr EXCEPT ![t].header = header,
                              ![t].pc = IF thr[t].arg + hdr[header].size = programbreak
                                        THEN "free_unlink" ELSE "free_flag"]
    /\ UNCHANGED <<head, tail, hdr, brk, live, last1, global_lock>>
    /\ UnchangedByThreads

\* if(head == tail) head = tail = NULL; else the node before tail becomes tail
free_unlink(t) ==
    /\ variant = "V1"
    /\ thr[t].pc = "free_unlink"
    /\ \E u \in {IF head = tail
                  THEN [hdr |-> hdr, head |-> NULL, tail |-> NULL, brk |-> brk]
                  ELSE V1_drop_tail(Naive, head)} :
         /\ hdr' = u.hdr
         /\ head' = u.head
         /\ tail' = u.tail
    /\ thr' = [thr EXCEPT ![t].pc = "free_shrink"]
    /\ UNCHANGED <<brk, live, last1, global_lock>>
    /\ UnchangedByThreads

\* sbrk(0-sizeof(header_t) + header->s.size); unlock; return;
free_shrink(t) ==
    /\ variant = "V1"
    /\ thr[t].pc = "free_shrink"
    /\ LET size == hdr[thr[t].header].size
       IN  \E ok \in ThreadSbrkAnswers(size - HEADER_SIZE) :
             brk' = sbrk(brk, (0 - HEADER_SIZE) + size, ok \/ size <= HEADER_SIZE).brk
    /\ hdr' = V1_Forget(Naive)
    /\ global_lock' = pthread_mutex_unlock(global_lock, t)
    /\ last1' = [op |-> "free", p |-> thr[t].arg, size |-> 0, ret |-> NULL]
    /\ thr' = [thr EXCEPT ![t] = IdleThread]
    /\ UNCHANGED <<head, tail, live>>
    /\ UnchangedByThreads

\* header->s.free = 1; unlock;
free_flag(t) ==
    /\ variant = "V1"
    /\ thr[t].pc = "free_flag"
    /\ hdr' = [hdr EXCEPT ![thr[t].header].free = 1]
    /\ global_lock' = pthread_mutex_unlock(global_lock, t)
    /\ last1' = [op |-> "free", p |-> thr[t].arg, size |-> 0, ret |-> NULL]
    /\ thr' = [thr EXCEPT ![t] = IdleThread]
    /\ UNCHANGED <<head, tail, brk, live>>
    /\ UnchangedByThreads

\* ---- V4
Buddy == [node |-> node, fl |-> free_list]

BuddyInit ==
    /\ variant \in {"V4", "V5"}
    /\ heap_start = NULL
    /\ \E r \in {buddy_init(junk)} :
           /\ node' = ForgetNodes(r.node)
           /\ free_list' = r.fl
    /\ heap_start' = HeapStart
    /\ last4' = [op |-> "init", p |-> NULL, size |-> 0, ret |-> NULL,
                 prior |-> NoPrior, freed |-> NULL]
    /\ UNCHANGED <<variant, held>>
    /\ UNCHANGED vars23 /\ UNCHANGED vars5 /\ UNCHANGED vars1

BuddyAlloc ==
    /\ variant = "V4"
    /\ \E req_order \in (0 - 1) .. (MAX_ORDER + 1) :
         \E r \in {buddy_alloc(Buddy, req_order)} :
             /\ r.ret # NULL => Cardinality(held) < MaxHeld
             /\ node' = ForgetNodes(r.node)
             /\ free_list' = r.fl
             /\ held' = IF r.ret # NULL
                        THEN held \cup {[p |-> r.ret, order |-> req_order]}
                        ELSE held
             /\ last4' = [op |-> "alloc", p |-> NULL, size |-> req_order, ret |-> r.ret,
                          prior |-> NoPrior,
                          freed |-> IF last4.prior # NoPrior /\ req_order = last4.prior
                                    THEN last4.p ELSE NULL]
    /\ UNCHANGED <<variant, heap_start>>
    /\ UNCHANGED vars23 /\ UNCHANGED vars5 /\ UNCHANGED vars1

BuddyFree ==
    /\ variant = "V4"
    /\ \E ptr \in {b.p : b \in held} \cup {NULL} :
         \E r \in {buddy_free(Buddy, ptr)} :
             /\ node' = ForgetNodes(r.node)
             /\ free_list' = r.fl
             /\ held' = {b \in held : b.p # ptr}
             /\ last4' = [op |-> "free", p |-> ptr, size |-> 0, ret |-> NULL,
                          prior |-> IF ptr # NULL /\ last4.op = "alloc" /\ last4.ret = ptr
                                    THEN last4.size ELSE NoPrior,
                          freed |-> NULL]
    /\ UNCHANGED <<variant, heap_start>>
    /\ UNCHANGED vars23 /\ UNCHANGED vars5 /\ UNCHANGED vars1

\* ---- V5
Slab5 == [node |-> node, fl |-> free_list, caches |-> caches, slabs |-> slabs]

CacheCreate ==
    /\ variant = "V5"
    /\ heap_start # NULL
    /\ DOMAIN caches = {}
    /\ \E size \in ObjSizes :
         /\ caches' = (NewId(caches) :> kmem_cache_create(size)) @@ caches
         /\ last5' = [op |-> "create", p |-> NULL, size |-> size, ret |-> NewId(caches),
                      from |-> "none", streak |-> 0, cache |-> NewId(caches),
                      run |-> 0, freed |-> NULL]
    /\ UNCHANGED <<variant, slabs, objs>>
    /\ UNCHANGED vars23 /\ UNCHANGED vars4 /\ UNCHANGED vars1

\* a second cache is created next to the first, over the same arena
CacheCreateSecond ==
    /\ variant = "V5"
    /\ heap_start # NULL
    /\ Cardinality(DOMAIN caches) = 1
    /\ \E size \in PairSizes :
         /\ caches' = (NewId(caches) :> kmem_cache_create(size)) @@ caches
         /\ last5' = [op |-> "create", p |-> NULL, size |-> size, ret |-> NewId(caches),
                      from |-> "none", streak |-> 0, cache |-> NewId(caches),
                      run |-> 0, freed |-> NULL]
    /\ UNCHANGED <<variant, slabs, objs>>
    /\ UNCHANGED vars23 /\ UNCHANGED vars4 /\ UNCHANGED vars1

\* what the history keeps of a kmem_cache_alloc on cache c that gave r
AllocRecord(c, r) ==
    [op |-> "alloc", p |-> c, size |-> 0, ret |-> r.ret,
     from |-> IF caches[c].slabs_partial # NULL THEN "partial"
              ELSE IF caches[c].slabs_free # NULL THEN "free"
              ELSE "new",
     streak |-> IF /\ r.ret # NULL
                   /\ last5.streak # NoPrior
                   /\ c = last5.cache
                THEN last5.streak + 1 ELSE NoPrior,
     cache |-> c,
     run |-> IF r.ret = NULL THEN 0
             ELSE IF SlotOf(r.ret, caches[c].obj_size) = 0 THEN 1
             ELSE IF /\ last5.op = "alloc" /\ last5.cache = c
                     /\ last5.run = SlotOf(r.ret, caches[c].obj_size)
                     /\ PageOf(last5.ret) = PageOf(r.ret)
             THEN last5.run + 1 ELSE 0,
     freed |-> IF /\ last5.op = "free" /\ last5.cache = c
                  /\ last5.run >= 2
               THEN last5.p ELSE NULL]

CacheAlloc ==
    /\ variant = "V5"
    /\ \E c \in DOMAIN caches :
         \E r \in {kmem_cache_alloc(Slab5, c)} :
             /\ r.ret # NULL => Cardinality(objs) < MaxObjs
             /\ node' = ForgetNodes5(r.node, r.slabs)
             /\ free_list' = r.fl
             /\ caches' = r.caches
             /\ slabs' = r.slabs
             /\ objs' = IF r.ret # NULL THEN objs \cup {[c |-> c, p |-> r.ret]} ELSE objs
             /\ last5' = AllocRecord(c, r)
    /\ UNCHANGED <<variant, heap_start, held, last4>>
    /\ UNCHANGED vars23 /\ UNCHANGED vars1

CacheFree ==
    /\ variant = "V5"
    /\ \E o \in objs \cup {[c |-> c, p |-> NULL] : c \in DOMAIN caches} :
         \E r \in {kmem_cache_free(Slab5, o.c, o.p)} :
             /\ node' = ForgetNodes5(r.node, r.slabs)
             /\ free_list' = r.fl
             /\ caches' = r.caches
             /\ slabs' = r.slabs
             /\ objs' = objs \ {o}
             /\ last5' = [op |-> "free", p |-> o.p, size |-> 0, ret |-> NULL,
                          from |-> "none", streak |-> NoPrior, cache |-> o.c,
                          run |-> IF /\ o.p # NULL
                                     /\ last5.op = "alloc" /\ last5.cache = o.c
                                     /\ last5.run >= 2
                                     /\ PageOf(last5.ret) = PageOf(o.p)
                                     /\ SlotOf(o.p, caches[o.c].obj_size) < last5.run - 1
                                  THEN last5.run ELSE 0,
                          freed |-> NULL]
    /\ UNCHANGED <<variant, heap_start, held, last4>>
    /\ UNCHANGED vars23 /\ UNCHANGED vars1

CacheDestroy ==
    /\ variant = "V5"
    /\ \E c \in DOMAIN caches :
         \E r \in {kmem_cache_destroy(Slab5, c)} :
             /\ node' = ForgetNodes5(r.node, r.slabs)
             /\ free_list' = r.fl
             /\ caches' = r.caches
             /\ slabs' = r.slabs
             /\ objs' = {o \in objs : o.c # c}
             /\ last5' = [op |-> "destroy", p |-> c, size |-> 0, ret |-> NULL,
                          from |-> "none", streak |-> NoPrior, cache |-> c,
                          run |-> 0, freed |-> NULL]
    /\ UNCHANGED <<variant, heap_start, held, last4>>
    /\ UNCHANGED vars23 /\ UNCHANGED vars1

\* the caller of the slab allocator fills the object it has just been given.
\* The object at slot 0 starts at page_start, where the block_t of the page
\* lies, and every object of sizeof(block_t) bytes or more covers next, prev,
\* order and is_free; the values written are drawn from those a node can hold
CacheWrite ==
    /\ variant = "V5"
    /\ last5.op = "alloc"
    /\ \E o \in objs : \E g \in Garbage :
         /\ o.p = last5.ret /\ o.c = last5.cache
         /\ SlotOf(o.p, caches[o.c].obj_size) = 0
         /\ caches[o.c].obj_size >= 24
         /\ node' = [node EXCEPT ![o.p] = g]
         /\ last5' = [op |-> "write", p |-> o.p, size |-> 0, ret |-> NULL,
                      from |-> "none", streak |-> NoPrior, cache |-> o.c,
                      run |-> 0, freed |-> NULL]
    /\ UNCHANGED <<variant, heap_start, held, last4, free_list, caches, slabs, objs>>
    /\ UNCHANGED vars23 /\ UNCHANGED vars1

InitV1 == InitVariant("V1")
NextV1 == V1_Malloc \/ V1_Free
SpecV1 == InitV1 /\ [][NextV1]_vars

\* V1 called from NThreads threads
NextV1Threads ==
    \E t \in Threads :
        \/ malloc_enter(t) \/ malloc_lock(t) \/ malloc_search(t) \/ malloc_reuse(t)
        \/ malloc_sbrk(t) \/ malloc_link(t)
        \/ free_enter(t) \/ free_lock(t) \/ free_check(t) \/ free_unlink(t)
        \/ free_shrink(t) \/ free_flag(t)
SpecV1Threads == InitV1 /\ [][NextV1Threads]_vars

\* the scheduler lets every thread that can take a step take one, and the
\* mutex is granted to every thread that waits for it while it is released
\* again and again
SpecV1Fair ==
    /\ SpecV1Threads
    /\ \A t \in Threads :
         /\ WF_vars(malloc_search(t) \/ malloc_reuse(t) \/ malloc_sbrk(t)
                     \/ malloc_link(t) \/ free_check(t) \/ free_unlink(t)
                     \/ free_shrink(t) \/ free_flag(t))
         /\ SF_vars(malloc_lock(t) \/ free_lock(t))

InitV23 == \E v \in {"V2", "V3"} : InitVariant(v)
NextV23 == V2_Malloc \/ V2_Free \/ V3_Malloc \/ V3_Free \/ V3_Realloc
SpecV23 == InitV23 /\ [][NextV23]_vars

\* the explicit free list under a client that mallocs and frees in a heap of
\* up to three chunks
NextV3Deep == V3_MallocDeep \/ V3_Free
SpecV3Deep == InitVariant("V3") /\ [][NextV3Deep]_vars

InitV4 == InitVariant("V4")
NextV4 == BuddyInit \/ BuddyAlloc \/ BuddyFree
SpecV4 == InitV4 /\ [][NextV4]_vars

\* the three allocators that hand out blocks of a size the caller chooses
InitV234 == \E v \in {"V2", "V3", "V4"} : InitVariant(v)
NextV234 == NextV23 \/ NextV4
SpecV234 == InitV234 /\ [][NextV234]_vars

\* the size adjustment of my_malloc and my_realloc taken on its own: the
\* request is the input, the adjusted size the output
AdjustSize ==
    /\ variant \in {"V2", "V3"}
    /\ \E size \in 1 .. MaxRequest :
         last23' = [op |-> "asize", p |-> NULL, size |-> size,
                    ret |-> AdjustedSize(size), old |-> 0, prior |-> NoPrior,
                    freed |-> NULL]
    /\ UNCHANGED <<variant, mem, junk, brk, heap_list_p, free_list_p, fault, live>>
    /\ UNCHANGED vars4 /\ UNCHANGED vars5 /\ UNCHANGED vars1

NextAsize == AdjustSize
SpecAsize == InitV23 /\ [][NextAsize]_vars

InitV5 == InitVariant("V5")
NextV5 == BuddyInit \/ CacheCreate \/ CacheAlloc \/ CacheFree \/ CacheDestroy
SpecV5 == InitV5 /\ [][NextV5]_vars

\* V5 with a caller that uses the objects it is given, over the life of one
\* cache: the cache is the first thing the client creates, it holds at most
\* MaxWriteObjs objects at a time, and it ends with kmem_cache_destroy
WriteCreate ==
    /\ variant = "V5"
    /\ heap_start # NULL
    /\ DOMAIN caches = {}
    /\ last5.op = "none"
    /\ \E size \in WriteSizes :
         /\ caches' = (NewId(caches) :> kmem_cache_create(size)) @@ caches
         /\ last5' = [op |-> "create", p |-> NULL, size |-> size, ret |-> NewId(caches),
                      from |-> "none", streak |-> 0, cache |-> NewId(caches),
                      run |-> 0, freed |-> NULL]
    /\ UNCHANGED <<variant, slabs, objs>>
    /\ UNCHANGED vars23 /\ UNCHANGED vars4 /\ UNCHANGED vars1

WriteAlloc ==
    /\ variant = "V5"
    /\ \E c \in DOMAIN caches :
         \E r \in {kmem_cache_alloc(Slab5, c)} :
             /\ r.ret # NULL => Cardinality(objs) < MaxWriteObjs
             /\ node' = ForgetNodes5(r.node, r.slabs)
             /\ free_list' = r.fl
             /\ caches' = r.caches
             /\ slabs' = r.slabs
             /\ objs' = IF r.ret # NULL THEN objs \cup {[c |-> c, p |-> r.ret]} ELSE objs
             /\ last5' = AllocRecord(c, r)
    /\ UNCHANGED <<variant, heap_start, held, last4>>
    /\ UNCHANGED vars23 /\ UNCHANGED vars1

NextV5Write ==
    BuddyInit \/ WriteCreate \/ WriteAlloc \/ CacheFree \/ CacheDestroy \/ CacheWrite
SpecV5Write == InitV5 /\ [][NextV5Write]_vars

\* V5 as the fill client drives it: one cache, created once, and nothing but
\* kmem_cache_alloc on it
FillCreate ==
    /\ variant = "V5"
    /\ heap_start # NULL
    /\ DOMAIN caches = {}
    /\ \E size \in FillSizes :
         /\ caches' = (NewId(caches) :> kmem_cache_create(size)) @@ caches
         /\ last5' = [op |-> "create", p |-> NULL, size |-> size, ret |-> NewId(caches),
                      from |-> "none", streak |-> 0, cache |-> NewId(caches),
                      run |-> 0, freed |-> NULL]
    /\ UNCHANGED <<variant, slabs, objs>>
    /\ UNCHANGED vars23 /\ UNCHANGED vars4 /\ UNCHANGED vars1

FillAlloc ==
    /\ variant = "V5"
    /\ \E c \in DOMAIN caches :
         \E r \in {kmem_cache_alloc(Slab5, c)} :
             /\ r.ret # NULL => Cardinality(objs) < MaxFill
             /\ node' = ForgetNodes5(r.node, r.slabs)
             /\ free_list' = r.fl
             /\ caches' = r.caches
             /\ slabs' = r.slabs
             /\ objs' = IF r.ret # NULL THEN objs \cup {[c |-> c, p |-> r.ret]} ELSE objs
             /\ last5' = AllocRecord(c, r)
    /\ UNCHANGED <<variant, heap_start, held, last4>>
    /\ UNCHANGED vars23 /\ UNCHANGED vars1

NextV5Fill == BuddyInit \/ FillCreate \/ FillAlloc
SpecV5Fill == InitV5 /\ [][NextV5Fill]_vars

\* V5 with two caches over the one buddy arena
\* the client of the pair creates both caches before it allocates
PairCacheAlloc ==
    /\ Cardinality(DOMAIN caches) = 2
    /\ Cardinality(objs) < MaxPairObjs
    /\ CacheAlloc

NextV5Pair ==
    BuddyInit \/ CacheCreate \/ CacheCreateSecond \/ PairCacheAlloc \/ CacheFree
SpecV5Pair == InitV5 /\ [][NextV5Pair]_vars

(***************************************************************************)
(* V2 / V3: the heap as the claims see it.                                 *)
(***************************************************************************)
\* the heap is set up and no call has faulted
Ready23 == variant \in {"V2", "V3"} /\ fault = "none" /\ heap_list_p \notin {0, SBRK_FAILED}

HeapBlocks == Blocks(mem, heap_list_p, brk)
BlockSize(bp) == GET_SIZE(mem, HDRP(bp))
IsFree(bp) == GET_ALLOC(mem, HDRP(bp)) = 0
FreeBlocks == {bp \in Range(HeapBlocks) : IsFree(bp)}

\* walking the blocks by their header sizes ends at the epilogue header,
\* the last word below the break
WalkReachesEpilogue ==
    LET bs == HeapBlocks
        end == IF bs = << >> THEN NXT_BLOCK(mem, heap_list_p)
               ELSE NXT_BLOCK(mem, bs[Len(bs)])
    IN  end = brk /\ GET(mem, HDRP(end)) = PACK(0, 1)

\* the explicit free list, cut after more nodes than the heap has blocks
FreeList == ListFrom(mem, free_list_p, Len(HeapBlocks) + 2)

\* C1: in V2 and V3, after every public operation returns, no two blocks
\* that are adjacent in the arena are both free.
C1_NoAdjacentFree ==
    Ready23 =>
        /\ WalkReachesEpilogue
        /\ \A i \in 1 .. (Len(HeapBlocks) - 1) :
             ~(IsFree(HeapBlocks[i]) /\ IsFree(HeapBlocks[i + 1]))

\* a my_free has merged the freed block into a free block that starts below
\* it and ends beyond it, next to an allocated block
C1_Witness ==
    /\ Ready23 /\ last23.op = "free"
    /\ \E bp \in FreeBlocks :
         /\ bp < last23.p
         /\ last23.p + (2 * DWORD) < bp + BlockSize(bp)
    /\ \E bp \in Range(HeapBlocks) : ~IsFree(bp)

\* C2: in V2 and V3, after every public operation returns, every block
\* between the prologue and the epilogue has a footer word equal to its
\* header word.
C2_HeaderEqualsFooter ==
    Ready23 =>
        /\ WalkReachesEpilogue
        /\ \A bp \in Range(HeapBlocks) :
             GET(mem, (bp + BlockSize(bp)) - DWORD) = GET(mem, bp - WORD)

\* a my_malloc has split a free block: the block it returned is followed by
\* a free block
C2_Witness ==
    /\ Ready23 /\ last23.op = "malloc" /\ last23.ret # NULL
    /\ \E i \in 1 .. (Len(HeapBlocks) - 1) :
         /\ HeapBlocks[i] = last23.ret
         /\ IsFree(HeapBlocks[i + 1])
    /\ Cardinality(live) >= 2

\* the bytes of the tags of the heap: the prologue's, every block's header
\* and footer, the epilogue header
TagWords ==
    {heap_list_p - WORD, heap_list_p, brk - WORD}
      \cup UNION {{bp - WORD, (bp + BlockSize(bp)) - DWORD} : bp \in Range(HeapBlocks)}

Overlap(a1, n1, a2, n2) == a1 < a2 + n2 /\ a2 < a1 + n1

\* C3: in V2 and V3, the byte ranges [p, p + n) of two outstanding
\* allocations do not overlap, and no such range contains a header or
\* footer word of any block.
C3_PayloadsDisjoint ==
    Ready23 =>
        /\ \A a \in live : \A b \in live :
             a.p # b.p => ~Overlap(a.p, a.n, b.p, b.n)
        /\ \A a \in live : \A w \in TagWords : ~Overlap(a.p, a.n, w, WORD)
        /\ \A a \in live :
             /\ a.p \in Range(HeapBlocks) /\ ~IsFree(a.p)
             /\ Cardinality({b \in live : b.p = a.p}) = 1

\* three allocations are outstanding, one of them of more than a chunk
C3_Witness ==
    /\ Ready23 /\ Cardinality(live) = 3
    /\ \E a \in live : a.n > DWORD /\ a.n % DWORD # 0
    /\ \E a \in live : a.n = 1

\* C4: in V3, after every public operation returns, the list headed by
\* free_list_p is acyclic and contains every free block of the heap exactly
\* once and no allocated block.
C4_FreeListExact ==
    (Ready23 /\ variant = "V3") =>
        /\ Len(FreeList) = Cardinality(Range(FreeList))
        /\ Len(FreeList) <= Len(HeapBlocks)
        /\ Range(FreeList) = FreeBlocks

\* a my_free has merged the freed block with a free neighbour while another
\* free block is on the list
C4_Witness ==
    /\ Ready23 /\ variant = "V3" /\ last23.op = "free"
    /\ Len(FreeList) >= 2
    /\ \E bp \in FreeBlocks :
         bp <= last23.p /\ last23.p < bp + BlockSize(bp) /\ BlockSize(bp) >= 4 * DWORD

\* C5: in V3, after every public operation returns, every block reachable
\* from free_list_p has its alloc bit clear, the head's prev pointer is
\* null, and the successor of every node points back to it.
C5_FreeListLinks ==
    (Ready23 /\ variant = "V3") =>
        /\ \A i \in 1 .. Len(FreeList) : GET_ALLOC(mem, HDRP(FreeList[i])) = 0
        /\ free_list_p # NULL => GET_PRV_PTR(mem, free_list_p) = NULL
        /\ \A i \in 1 .. (Len(FreeList) - 1) :
             GET_PRV_PTR(mem, FreeList[i + 1]) = FreeList[i]

\* a my_realloc has left two or more free blocks on the list
C5_Witness ==
    /\ Ready23 /\ variant = "V3" /\ last23.op = "realloc"
    /\ Len(FreeList) >= 2
    /\ live # {}

(***************************************************************************)
(* V4: the claims on the buddy allocator, over the states after buddy_init *)
(***************************************************************************)
Ready4 == variant = "V4" /\ heap_start # NULL

\* the blocks met by following next from b, at most fuel of them
RECURSIVE OrderListFrom(_, _)
OrderListFrom(b, fuel) ==
    IF b # NULL /\ fuel > 0 /\ b \in DOMAIN node
    THEN <<b>> \o OrderListFrom(node[b].next, fuel - 1)
    ELSE << >>

\* free_list[k] as a sequence, and the blocks on it
OrderList(k) == OrderListFrom(free_list[k], Cardinality(PageAddrs) + 1)
OnList(k) == Range(OrderList(k))

\* the buddy of block b at order k
BuddyOf(b, k) == HeapStart + BitXor(b - HeapStart, Shl(k))

\* the pages of a block of order k at b
PagesOf(b, k) == {b + (PAGE_SIZE * i) : i \in 0 .. ((2 ^ k) - 1)}

\* C6: in V4, after buddy_init and any calls of buddy_alloc and of buddy_free
\* on outstanding pointers, no block on free_list[k], k < MAX_ORDER, has its
\* buddy (offset XOR PAGE_SIZE * 2^k) on free_list[k] too.
C6_NoFreeBuddyPair ==
    Ready4 =>
        \A k \in 0 .. (MAX_ORDER - 1) :
            \A b \in OnList(k) : BuddyOf(b, k) \notin OnList(k)

\* a buddy_free has merged the block it was given into its left buddy, and
\* a block whose buddy is held stays on free_list[0]
C6_Witness ==
    /\ Ready4
    /\ last4.op = "free" /\ last4.p # NULL
    /\ free_list[0] # NULL
    /\ held # {}
    /\ \E k \in 1 .. (MAX_ORDER - 1) :
         \E b \in OnList(k) : b < last4.p /\ last4.p < b + Shl(k)

\* C7: in V4, every block on free_list[k] has order k and is_free = 1, lies
\* inside the arena at an offset that is a multiple of PAGE_SIZE * 2^k, every
\* list is a consistent doubly-linked list, and free_list[k] holds exactly
\* the blocks of order k that are free.
C7_FreeListsExact ==
    Ready4 =>
        \A k \in Orders :
            LET l == OrderList(k)
            IN  /\ Len(l) = Cardinality(Range(l))
                /\ Len(l) <= Cardinality(PageAddrs)
                /\ \A i \in 1 .. Len(l) :
                     /\ l[i] \in PageAddrs
                     /\ node[l[i]].order = k
                     /\ node[l[i]].is_free = 1
                     /\ l[i] + Shl(k) <= HeapStart + RAM_SIZE
                     /\ (l[i] - HeapStart) % Shl(k) = 0
                     /\ node[l[i]].prev = (IF i = 1 THEN NULL ELSE l[i - 1])
                     /\ node[l[i]].next = (IF i = Len(l) THEN NULL ELSE l[i + 1])
                /\ Range(l) = {a \in BuddyWalk(node, HeapStart) :
                                  node[a].is_free = 1 /\ node[a].order = k}

\* two blocks are on free_list[0] after a buddy_free, two more are held
C7_Witness ==
    /\ Ready4
    /\ last4.op = "free"
    /\ Len(OrderList(0)) = 2
    /\ Cardinality(held) = 2

\* the pages of the blocks the caller holds, and those of the free lists
HeldPages == UNION {PagesOf(h.p, h.order) : h \in held}
FreePages == UNION {PagesOf(b, k) : <<b, k>> \in {<<b, k>> \in PageAddrs \X Orders : b \in OnList(k)}}

\* C8: in V4, no outstanding block is reachable from a free list, the
\* outstanding blocks are pairwise disjoint and disjoint from the free
\* blocks, and free and outstanding blocks cover the arena exactly.
C8_BlocksTileArena ==
    Ready4 =>
        /\ \A h \in held : \A k \in Orders : h.p \notin OnList(k)
        /\ \A h1, h2 \in held :
              h1 # h2 => PagesOf(h1.p, h1.order) \cap PagesOf(h2.p, h2.order) = {}
        /\ HeldPages \cap FreePages = {}
        /\ \A k1, k2 \in Orders : \A b1 \in OnList(k1), b2 \in OnList(k2) :
              <<b1, k1>> # <<b2, k2>> => PagesOf(b1, k1) \cap PagesOf(b2, k2) = {}
        /\ HeldPages \cup FreePages = PageAddrs

\* blocks of two orders are held and a block is free
C8_Witness ==
    /\ Ready4
    /\ \E h1, h2 \in held : h1.order < h2.order
    /\ FreePages # {}

\* C9: in V4, once every allocated block has been freed the free lists hold
\* one block, of order MAX_ORDER at the arena base, and every list of a
\* lower order is empty.
C9_RoundTrip ==
    (Ready4 /\ held = {}) =>
        /\ free_list[MAX_ORDER] = HeapStart
        /\ node[HeapStart].next = NULL
        /\ node[HeapStart].order = MAX_ORDER
        /\ node[HeapStart].is_free = 1
        /\ \A k \in 0 .. (MAX_ORDER - 1) : free_list[k] = NULL

\* the last block held, not the one at the arena base, has just been freed
C9_Witness ==
    /\ Ready4
    /\ held = {}
    /\ last4.op = "free" /\ last4.p \notin {NULL, HeapStart}

(***************************************************************************)
(* V5: the claims on the slab allocator.                                   *)
(***************************************************************************)
\* the number of clear bits among the first n bits of bitmap
ClearBits(bitmap, n) == Cardinality({i \in 0 .. (n - 1) : Bit(bitmap, i) = 0})

\* C10: in V5, for every slab, bit i of the bitmap is set if and only if
\* the object at slot i is outstanding, and free_count is the number of clear
\* bits among the first objects_per_slab bits.
C10_BitmapMatchesObjects ==
    variant = "V5" =>
        \A c \in DOMAIN caches : \A s \in DOMAIN slabs :
            LET n == caches[c].objects_per_slab
            IN  /\ \A i \in 0 .. 31 :
                     Bit(slabs[s].bitmap, i) = 1
                       <=> /\ i < n
                           /\ [c |-> c,
                               p |-> slabs[s].page_start + (i * caches[c].obj_size)]
                                 \in objs
                /\ \A o \in objs :
                     (o.p >= slabs[s].page_start /\ o.p < slabs[s].page_start + PAGE_SIZE)
                       => \E i \in 0 .. (n - 1) :
                            o.p = slabs[s].page_start + (i * caches[c].obj_size)
                /\ slabs[s].free_count = ClearBits(slabs[s].bitmap, n)

\* a kmem_cache_free has cleared a bit below a set one
C10_Witness ==
    /\ variant = "V5"
    /\ last5.op = "free"
    /\ \E s \in DOMAIN slabs : Bit(slabs[s].bitmap, 0) = 0 /\ Bit(slabs[s].bitmap, 1) = 1

\* the slabs of the list that starts at head, in list order, cut after more
\* nodes than there are slabs
RECURSIVE SlabListFrom(_, _, _)
SlabListFrom(sl, first, fuel) ==
    IF first = NULL \/ fuel = 0 \/ first \notin DOMAIN sl
    THEN << >>
    ELSE <<first>> \o SlabListFrom(sl, sl[first].next, fuel - 1)

SlabList(first) == SlabListFrom(slabs, first, Cardinality(DOMAIN slabs) + 1)

\* how many times slab s occurs in the sequence list
Occurs(list, s) == Cardinality({i \in DOMAIN list : list[i] = s})

\* C11: in V5, for every cache with obj_size from 1 to PAGE_SIZE, after every
\* kmem_cache_alloc and kmem_cache_free each slab is on exactly one of the
\* three lists, the one its free_count dictates: partial slabs have
\* 0 < free_count < objects_per_slab, full slabs free_count = 0, free slabs
\* free_count = objects_per_slab.
C11_ListDictatedByFreeCount ==
    variant = "V5" =>
        \A c \in DOMAIN caches :
            caches[c].obj_size \in 1 .. PAGE_SIZE =>
                LET n == caches[c].objects_per_slab
                    partial == SlabList(caches[c].slabs_partial)
                    full == SlabList(caches[c].slabs_full)
                    free == SlabList(caches[c].slabs_free)
                IN  \A s \in DOMAIN slabs :
                        /\ Occurs(partial, s) + Occurs(full, s) + Occurs(free, s) = 1
                        /\ Occurs(partial, s) = 1
                             => (0 < slabs[s].free_count /\ slabs[s].free_count < n)
                        /\ Occurs(full, s) = 1 => slabs[s].free_count = 0
                        /\ Occurs(free, s) = 1 => slabs[s].free_count = n

\* the slabs on the three lists of cache c
SlabsOf(c) ==
    Range(SlabList(caches[c].slabs_partial))
      \cup Range(SlabList(caches[c].slabs_full))
      \cup Range(SlabList(caches[c].slabs_free))

C13_FailedCallChangesNothing ==
    [][(/\ Ready23
        /\ fault' = "none"
        /\ last23'.op \in {"malloc", "realloc"}
        /\ last23'.size > 0
        /\ last23'.ret = NULL)
         => (/\ mem' = mem
             /\ brk' = brk
             /\ heap_list_p' = heap_list_p
             /\ free_list_p' = free_list_p
             /\ live' = live)]_vars

\* a my_realloc of an outstanding block has just failed while a free block,
\* too small for the request, is in the heap
C13_Witness ==
    /\ Ready23 /\ variant = "V3"
    /\ last23.op = "realloc" /\ last23.p # NULL /\ last23.size > 0
    /\ last23.ret = NULL
    /\ \E a \in live : a.p = last23.p
    /\ FreeBlocks # {}

\* C14: in every variant freeing a null pointer is a silent no-op: V2 and
\* V3 my_free(NULL), also reached through my_realloc(NULL, 0), buddy_free(NULL)
\* and kmem_cache_free(cache, NULL) return without reading or writing any
\* state of the allocator.
C14_FreeNullIsNoOp ==
    [][/\ ((last23'.op = "free" /\ last23'.p = NULL)
             \/ (last23'.op = "realloc" /\ last23'.p = NULL /\ last23'.size = 0))
            => UNCHANGED <<mem, brk, heap_list_p, free_list_p, live, fault>>
       /\ (last4'.op = "free" /\ last4'.p = NULL)
            => UNCHANGED <<node, free_list, held>>
       /\ (last5'.op = "free" /\ last5'.p = NULL)
            => UNCHANGED <<node, free_list, caches, slabs, objs>>]_vars

\* the call this step makes is my_realloc(p, size) with p non-null and
\* size > 0, on a heap that is set up, and it does not fault
ReallocStep ==
    /\ Ready23 /\ variant = "V3"
    /\ fault' = "none"
    /\ last23'.op = "realloc" /\ last23'.p # NULL /\ last23'.size > 0

\* the numbers my_realloc computes from the heap before the call
ReallocAsize == AdjustedSize(last23'.size)
ReallocOld == GET_SIZE(mem, HDRP(last23'.p))
ReallocNextFree == GET_ALLOC(mem, HDRP(NXT_BLOCK(mem, last23'.p))) = 0
ReallocNextSize == GET_SIZE(mem, HDRP(NXT_BLOCK(mem, last23'.p)))

\* the words that hold the first n bytes at a
WordsAt(a, n) == {a + (WORD * k) : k \in 0 .. (((n + WORD - 1) \div WORD) - 1)}

\* C15: V3 my_realloc fallback: when p is non-null, size > 0, the request
\* cannot be satisfied in place and a new block can be allocated, my_realloc
\* returns a pointer different from p whose first min(size, old - DWORD) bytes
\* equal the bytes that were in p's payload, and afterwards the old block is
\* free and on the free list, possibly merged with its neighbours.
C15_ReallocFallback ==
    [][(/\ ReallocStep
        /\ ReallocAsize > ReallocOld
        /\ ~(ReallocNextFree /\ ReallocOld + ReallocNextSize >= ReallocAsize)
        /\ last23'.ret # NULL)
         => LET ptr == last23'.p
                new_ptr == last23'.ret
                copy_size == IF last23'.size < ReallocOld - DWORD
                             THEN last23'.size ELSE ReallocOld - DWORD
            IN  /\ new_ptr # ptr
                /\ \A a \in WordsAt(ptr, copy_size) :
                     GET(mem', new_ptr + (a - ptr)) = GET(mem, a)
                /\ [p |-> new_ptr, n |-> last23'.size] \in live'
                /\ \E bp \in FreeBlocks' :
                     /\ bp <= ptr /\ ptr < bp + GET_SIZE(mem', HDRP(bp))
                     /\ bp \in Range(FreeList')]_vars

\* a my_realloc has just moved a block, and the old block was merged into a
\* free block that starts below it
C15_Witness ==
    /\ Ready23 /\ variant = "V3"
    /\ last23.op = "realloc" /\ last23.p # NULL /\ last23.size > 0
    /\ last23.ret \notin {NULL, last23.p}
    /\ \E bp \in FreeBlocks : bp < last23.p /\ last23.p < bp + BlockSize(bp)

\* C16: V3 my_realloc in-place growth: when asize > old, the block after p
\* is free and old + next.size >= asize, my_realloc returns p with p's old
\* payload bytes unchanged and p's block grown to at least asize; the next
\* block is removed from the free list; if old + next.size - asize >= 2 * DWORD
\* the free remainder of that size follows p and is the head of the free
\* list, otherwise p's block absorbs the whole old + next.size.
C16_ReallocGrowInPlace ==
    [][(/\ ReallocStep
        /\ ReallocAsize > ReallocOld
        /\ ReallocNextFree
        /\ ReallocOld + ReallocNextSize >= ReallocAsize)
         => LET ptr == last23'.p
                total_avail == ReallocOld + ReallocNextSize
                remainder_ptr == ptr + ReallocAsize
            IN  /\ last23'.ret = ptr
                /\ \A a \in WordsAt(ptr, ReallocOld - DWORD) : GET(mem', a) = GET(mem, a)
                /\ GET_ALLOC(mem', HDRP(ptr)) = 1
                /\ GET_SIZE(mem', HDRP(ptr)) >= ReallocAsize
                /\ NXT_BLOCK(mem, ptr) \notin Range(FreeList')
                /\ IF total_avail - ReallocAsize >= 2 * DWORD
                   THEN /\ GET_SIZE(mem', HDRP(ptr)) = ReallocAsize
                        /\ NXT_BLOCK(mem', ptr) = remainder_ptr
                        /\ GET(mem', HDRP(remainder_ptr))
                             = PACK(total_avail - ReallocAsize, 0)
                        /\ GET(mem', FTRP(mem', remainder_ptr))
                             = PACK(total_avail - ReallocAsize, 0)
                        /\ free_list_p' = remainder_ptr
                   ELSE GET_SIZE(mem', HDRP(ptr)) = total_avail]_vars

\* a my_realloc has just grown a block where it lies, and the remainder
\* that follows the block is the head of the free list
C16_Witness ==
    /\ Ready23 /\ variant = "V3"
    /\ last23.op = "realloc" /\ last23.p # NULL /\ last23.ret = last23.p
    /\ last23.old < BlockSize(last23.p)
    /\ BlockSize(last23.p) = AdjustedSize(last23.size)
    /\ free_list_p = NXT_BLOCK(mem, last23.p)
    /\ IsFree(free_list_p)

\* C17: V3 my_realloc shrink: when asize <= old and old - asize >= 2 * DWORD,
\* my_realloc returns p, p's block size becomes exactly asize (strictly
\* smaller than before), the block immediately after p is free (the split-off
\* tail, merged with the following block if that was free) and is the head of
\* the free list.
C17_ReallocShrink ==
    [][(/\ ReallocStep
        /\ ReallocAsize <= ReallocOld
        /\ ReallocOld - ReallocAsize >= 2 * DWORD)
         => LET ptr == last23'.p
                rest == ptr + ReallocAsize
                merged == (ReallocOld - ReallocAsize)
                            + (IF ReallocNextFree THEN ReallocNextSize ELSE 0)
            IN  /\ last23'.ret = ptr
                /\ GET(mem', HDRP(ptr)) = PACK(ReallocAsize, 1)
                /\ ReallocAsize < ReallocOld
                /\ NXT_BLOCK(mem', ptr) = rest
                /\ GET(mem', HDRP(rest)) = PACK(merged, 0)
                /\ GET(mem', FTRP(mem', rest)) = PACK(merged, 0)
                /\ rest \in FreeBlocks'
                /\ free_list_p' = rest]_vars

\* a my_realloc has just shrunk a block, and the tail it split off was merged
\* with the free block that followed
C17_Witness ==
    /\ Ready23 /\ variant = "V3"
    /\ last23.op = "realloc" /\ last23.p # NULL /\ last23.ret = last23.p
    /\ last23.old > BlockSize(last23.p)
    /\ free_list_p = NXT_BLOCK(mem, last23.p)
    /\ BlockSize(free_list_p) > last23.old - BlockSize(last23.p)

\* the words of mem that are not the callers' payload: headers, footers,
\* links, prologue and epilogue
Tags(m, lv) == [a \in DOMAIN m \ PayloadWords(lv) |-> m[a]]

\* the size p's block has after a merge with the next block: asize when the
\* remainder is split off, else all of old + next.size
ReallocMerged ==
    IF (ReallocOld + ReallocNextSize) - ReallocAsize >= 2 * DWORD
    THEN ReallocAsize
    ELSE ReallocOld + ReallocNextSize

\* the heap after the call shows the merge of p's block with the next block:
\* p is returned with the merged size, and either the remainder follows it as
\* the head of the free list, or the next block is gone from the free list
ReallocMergeDone ==
    /\ last23'.ret = last23'.p
    /\ GET(mem', HDRP(last23'.p)) = PACK(ReallocMerged, 1)
    /\ IF (ReallocOld + ReallocNextSize) - ReallocAsize >= 2 * DWORD
       THEN /\ GET(mem', HDRP(last23'.p + ReallocAsize))
                 = PACK((ReallocOld + ReallocNextSize) - ReallocAsize, 0)
            /\ free_list_p' = last23'.p + ReallocAsize
       ELSE NXT_BLOCK(mem, last23'.p) \notin Range(FreeList')

\* C18 as stated: V3 my_realloc step ordering: for non-null p and size > 0,
\* whenever the in-place split condition (asize <= old and
\* old - asize >= 2 * DWORD) does not hold and the block after p is free with
\* old + next.size >= asize, the next block is deleted from the free list and
\* merged into p's block and p is returned, also when asize <= old with
\* old - asize < 2 * DWORD.
C18_MergeWheneverNoSplit ==
    [][(/\ ReallocStep
        /\ ~(ReallocAsize <= ReallocOld /\ ReallocOld - ReallocAsize >= 2 * DWORD)
        /\ ReallocNextFree
        /\ ReallocOld + ReallocNextSize >= ReallocAsize)
         => ReallocMergeDone]_vars

\* C18, amended: for non-null p and size > 0, when asize <= old and
\* old - asize < 2 * DWORD my_realloc returns p and changes no header, footer,
\* link or the break, whether or not the block after p is free (a free next
\* block stays on the free list); the next block is deleted from the free
\* list and merged into p's block only when asize > old, it is free and
\* old + next.size >= asize.
C18_MergeOnlyToGrow ==
    [][/\ (/\ ReallocStep
           /\ ReallocAsize <= ReallocOld
           /\ ReallocOld - ReallocAsize < 2 * DWORD)
            => (/\ last23'.ret = last23'.p
                /\ Tags(mem', live') = Tags(mem, live)
                /\ brk' = brk /\ free_list_p' = free_list_p
                /\ FreeList' = FreeList
                /\ GET_SIZE(mem', HDRP(last23'.p)) = ReallocOld)
       /\ (/\ ReallocStep
           /\ ReallocAsize > ReallocOld
           /\ ReallocNextFree
           /\ ReallocOld + ReallocNextSize >= ReallocAsize)
            => ReallocMergeDone]_vars

\* a my_realloc has just returned a block that was larger than asked for,
\* by less than a block, and the free block after it is still on the free list
C18_Witness ==
    /\ Ready23 /\ variant = "V3"
    /\ last23.op = "realloc" /\ last23.p # NULL /\ last23.ret = last23.p
    /\ last23.size > 0
    /\ last23.old = BlockSize(last23.p)
    /\ AdjustedSize(last23.size) < last23.old
    /\ NXT_BLOCK(mem, last23.p) \in FreeBlocks
    /\ NXT_BLOCK(mem, last23.p) \in Range(FreeList)

\* the free blocks of the heap before the call that are large enough for
\* the request this step makes
Fits == {bp \in FreeBlocks : BlockSize(bp) >= AdjustedSize(last23'.size)}

\* C19: V2 first fit: in any reachable state my_malloc(size) with size > 0
\* returns the payload of the lowest-address free block whose size is
\* >= asize, and extends the heap, by max(asize, CHUNKSIZE), only when no free
\* block in the arena has size >= asize (on the heap not yet set up the first
\* block of the new heap is returned).
C19_FirstFit ==
    [][(/\ variant = "V2" /\ fault = "none" /\ fault' = "none"
        /\ last23'.op = "malloc" /\ last23'.size > 0)
         => /\ (Ready23 /\ Fits # {})
                 => (/\ last23'.ret \in Fits
                     /\ \A bp \in Fits : last23'.ret <= bp
                     /\ brk' = brk)
            /\ (Ready23 /\ Fits = {} /\ last23'.ret # NULL)
                 => (/\ brk' > brk
                     /\ Max(AdjustedSize(last23'.size), CHUNKSIZE) % DWORD = 0
                          => brk' - brk = Max(AdjustedSize(last23'.size), CHUNKSIZE)
                     /\ \A bp \in Range(HeapBlocks') :
                          (bp < last23'.ret /\ GET_ALLOC(mem', HDRP(bp)) = 0)
                            => GET_SIZE(mem', HDRP(bp)) < AdjustedSize(last23'.size))
            /\ (Ready23 /\ brk' # brk) => Fits = {}
            /\ (heap_list_p = 0 /\ last23'.ret # NULL)
                 => last23'.ret = InitBreak + (4 * WORD)]_vars

\* a V2 my_malloc has just passed over a free block that was too small and
\* returned a block above it
C19_Witness ==
    /\ Ready23 /\ variant = "V2"
    /\ last23.op = "malloc" /\ last23.ret # NULL
    /\ \E bp \in FreeBlocks : bp < last23.ret /\ BlockSize(bp) < AdjustedSize(last23.size)

(***************************************************************************)
(* V2 / V3 / V4: releasing a block and asking again.                       *)
(***************************************************************************)
\* this step is a my_malloc that follows the my_free of the pointer a
\* my_malloc had just returned, and asks for at most what that one asked for
ReclaimStep23 ==
    /\ variant \in {"V2", "V3"}
    /\ last23.op = "free" /\ last23.prior # NoPrior
    /\ last23'.op = "malloc" /\ last23'.freed = last23.p

\* this step is a buddy_alloc that follows the buddy_free of the block a
\* buddy_alloc of the same order had just returned
ReclaimStep4 ==
    /\ variant = "V4"
    /\ last4.op = "free" /\ last4.prior # NoPrior
    /\ last4'.op = "alloc" /\ last4'.freed = last4.p

\* C20 as stated: in any reachable state allocate(n) returning p, then
\* free(p), then allocate(n) returns p again (V4: n is the order), and in V2
\* and V3 a second request smaller than the first returns p as well.
C20_ReclaimSameAddress ==
    [][/\ ReclaimStep23 => last23'.ret = last23.p
       /\ ReclaimStep4 => last4'.ret = last4.p]_vars

\* C20: in any reachable state allocate(n) returning p, then free(p), then
\* allocate(n) returns p again (V2, V3, and V4 with n the order); in V3 a
\* smaller second request returns p as well; in V2 a smaller second request
\* returns the lowest-address free block that fits it, which is p exactly
\* when no free block below p fits.
C20_ReclaimUnlessLowerFit ==
    [][/\ (ReclaimStep23 /\ (variant = "V3" \/ last23'.size = last23.prior))
            => last23'.ret = last23.p
       /\ (ReclaimStep23 /\ variant = "V2")
            => /\ last23.p \in Fits
               /\ last23'.ret \in Fits
               /\ \A bp \in Fits : last23'.ret <= bp
               /\ last23'.ret = last23.p <=> ~(\E bp \in Fits : bp < last23.p)
       /\ ReclaimStep4 => last4'.ret = last4.p]_vars

\* a V2 my_malloc, asked for less than the my_malloc whose block was released
\* just before it, has returned a free block below the released one
C20_Witness ==
    /\ Ready23 /\ variant = "V2"
    /\ last23.op = "malloc" /\ last23.freed # NULL
    /\ last23.ret # NULL /\ last23.ret < last23.freed

\* the released block has been handed out again: by V3 to a smaller request,
\* split; by V4 out of a block that buddy_free had merged
C20_ReclaimedV3 ==
    /\ Ready23 /\ variant = "V3"
    /\ last23.op = "malloc" /\ last23.freed # NULL /\ last23.ret = last23.freed
    /\ NXT_BLOCK(mem, last23.ret) \in FreeBlocks

C20_ReclaimedV4 ==
    /\ Ready4
    /\ last4.op = "alloc" /\ last4.freed # NULL /\ last4.ret = last4.freed
    /\ last4.size < MAX_ORDER

(***************************************************************************)
(* V2 / V3: sizes and alignment.                                           *)
(***************************************************************************)
\* the least integer that is >= a / b
CeilDiv(a, b) == (a + (b - 1)) \div b

\* DWORD * ceil((size + DWORD) / DWORD + 1): the ceiling of a quotient plus
\* one is the ceiling of the quotient, plus one
AsizeOneMore(size) ==
    IF size <= DWORD THEN 2 * DWORD ELSE DWORD * (CeilDiv(size + DWORD, DWORD) + 1)

\* DWORD * ceil((size + DWORD) / DWORD)
AsizeRounded(size) ==
    IF size <= DWORD THEN 2 * DWORD ELSE DWORD * CeilDiv(size + DWORD, DWORD)

\* C21 as stated: for every request size > DWORD the adjusted size is
\* DWORD * ceil((size + DWORD) / DWORD + 1), and 2 * DWORD for size <= DWORD.
C21_AsizeCeilPlusOne ==
    last23.op = "asize" => last23.ret = AsizeOneMore(last23.size)

\* C21: for every request size > DWORD the adjusted size is
\* DWORD * ceil((size + DWORD) / DWORD), and 2 * DWORD for size <= DWORD.
C21_AsizeCeil ==
    last23.op = "asize" => last23.ret = AsizeRounded(last23.size)

\* the adjusted size of a request above DWORD that is not a multiple of DWORD
C21_Witness ==
    /\ last23.op = "asize"
    /\ last23.size > DWORD /\ last23.size % DWORD # 0
    /\ last23.ret = last23.size + DWORD + (DWORD - (last23.size % DWORD))

\* the smallest multiple of 16 that is >= size + 16 and at least 32
BlockBytes(size) ==
    CHOOSE a \in 32 .. (size + 48) :
        /\ a % 16 = 0 /\ a >= size + 16
        /\ \A c \in 32 .. (a - 1) : ~(c % 16 = 0 /\ c >= size + 16)

\* this step is a my_malloc that returns a block
MallocStep ==
    /\ variant \in {"V2", "V3"} /\ fault = "none" /\ fault' = "none"
    /\ last23'.op = "malloc" /\ last23'.ret # NULL

\* the size of the free block this my_malloc places the request in: the block
\* find_fit found, or the block that ends the heap after the extension
PlacedIn ==
    IF brk' = brk THEN BlockSize(last23'.ret) ELSE brk' - last23'.ret

\* C22: every successful my_malloc(size) hands out a block of size s with
\* asize <= s < asize + 2 * DWORD, asize being the smallest multiple of 16
\* that is >= size + 16 and at least 32; the free block of size b it is
\* placed in is split into an allocated prefix of exactly asize and a free
\* remainder of b - asize iff b - asize >= 2 * DWORD, and consumed whole
\* otherwise.
C22_BlockSizing ==
    [][MallocStep =>
        LET asize == BlockBytes(last23'.size)
            bp == last23'.ret
            s == GET_SIZE(mem', HDRP(bp))
            b == PlacedIn
        IN  /\ GET_ALLOC(mem', HDRP(bp)) = 1
            /\ GET(mem', HDRP(bp)) = GET(mem', (bp + s) - DWORD)
            /\ asize <= s /\ s < asize + (2 * DWORD)
            /\ brk' = brk => bp \in FreeBlocks
            /\ b - asize >= 2 * DWORD
                 => /\ s = asize
                    /\ GET(mem', HDRP(bp + asize)) = PACK(b - asize, 0)
                    /\ GET(mem', (bp + b) - DWORD) = PACK(b - asize, 0)
                    /\ variant = "V3" => (bp + asize) \in Range(FreeList')
            /\ b - asize < 2 * DWORD => s = b]_vars

\* my_malloc has handed out a whole free block that was larger than asize by
\* less than a minimum block, next to a block it had split off before
C22_Witness ==
    /\ Ready23
    /\ last23.op = "malloc" /\ last23.ret # NULL
    /\ BlockSize(last23.ret) = AdjustedSize(last23.size) + DWORD
    /\ \E a \in live : a.p # last23.ret /\ BlockSize(a.p) = AdjustedSize(a.n)

\* C23: in V2 and V3, the break being 16-byte aligned when the heap is
\* initialised, every pointer my_malloc or my_realloc returns is a multiple
\* of 16 and every block size stored in a header is a multiple of 16, after
\* any sequence of calls, heap extensions included.
C23_Aligned16 ==
    (variant \in {"V2", "V3"} /\ fault = "none" /\ InitBreak % 16 = 0)
      => /\ last23.op \in {"malloc", "realloc"} => last23.ret % 16 = 0
         /\ \A a \in live : a.p % 16 = 0
         /\ Ready23
              => \A bp \in Range(HeapBlocks) :
                   /\ bp % 16 = 0
                   /\ (GET(mem, HDRP(bp)) - GET_ALLOC(mem, HDRP(bp))) % 16 = 0

\* a request that is no multiple of 16 has been served from a heap that was
\* extended twice, and the block ahead of it is of a different size
C23_Witness ==
    /\ Ready23 /\ brk >= InitBreak + (4 * WORD) + (2 * CHUNKSIZE)
    /\ last23.op \in {"malloc", "realloc"} /\ last23.ret # NULL
    /\ last23.size % 16 # 0
    /\ \E a \in live : a.p < last23.ret /\ BlockSize(a.p) # BlockSize(last23.ret)

(***************************************************************************)
(* V1: the claims on the naive allocator.                                  *)
(***************************************************************************)
\* C24: in V1, the initial break being 16-byte aligned, every pointer that
\* malloc(size) returns, for any size > 0 and after any sequence of malloc
\* and free calls, is 16-byte aligned.
C24_PointersAligned ==
    (variant = "V1" /\ InitBreak % 16 = 0)
      => /\ (last1.op = "malloc" /\ last1.ret # NULL) => last1.ret % 16 = 0
         /\ \A a \in live : a.p % 16 = 0

(***************************************************************************)
(* V4: the contracts of buddy_alloc.                                       *)
(***************************************************************************)
\* this step is a buddy_alloc
AllocStep4 == variant = "V4" /\ last4'.op = "alloc"

\* the orders whose free list can serve the request of this step
ServingOrders ==
    {k \in Orders : last4'.size >= 0 /\ k >= last4'.size /\ free_list[k] # NULL}

\* the least order of a non-empty set of orders
LeastOrder(S) == CHOOSE k \in S : \A j \in S : k <= j

\* C25: buddy_alloc(req_order) serves the request from the smallest order
\* k >= req_order whose free list is non-empty and returns a block of exactly
\* order req_order; it returns null iff no order in [req_order, MAX_ORDER] has
\* a non-empty free list, which includes every req_order < 0 and every
\* req_order > MAX_ORDER, and a null return leaves every free list unchanged.
C25_ServedFromSmallestOrder ==
    [][AllocStep4 =>
        LET req_order == last4'.size
            ret == last4'.ret
        IN  /\ ret = NULL <=> ServingOrders = {}
            /\ req_order \notin Orders => ret = NULL
            /\ ret = NULL => free_list' = free_list /\ node' = node
            /\ ret # NULL
                 => \A k \in {LeastOrder(ServingOrders)} :
                        /\ ret = free_list[k]
                        /\ node'[ret].order = req_order
                        /\ node'[ret].is_free = 0
                        /\ OnList(k)' = OnList(k) \ {ret}
                        /\ \A j \in Orders :
                             (j < req_order \/ j > k) => OrderList(j)' = OrderList(j)]_vars

\* a buddy_alloc of an order within range has returned null while blocks of
\* a lower order are free
C25_Witness ==
    /\ Ready4
    /\ last4.op = "alloc" /\ last4.ret = NULL /\ last4.size \in Orders
    /\ \E j \in Orders : j < last4.size /\ Cardinality(OnList(j)) >= 2

\* a buddy_alloc has been served from an order above the one asked for
C25_ServedFromAbove ==
    /\ Ready4
    /\ last4.op = "alloc" /\ last4.ret # NULL
    /\ (last4.ret + Shl(last4.size)) \in OnList(last4.size)

\* C26: when buddy_alloc(r) is served from a free block of order j > r, the
\* block returned is the lowest-address part of that block and exactly one new
\* free block is added at each order k in [r, j), at the returned address +
\* PAGE_SIZE * 2^k; in particular buddy_alloc(0) right after buddy_init leaves
\* exactly one free block at each order in [0, MAX_ORDER) and none at
\* MAX_ORDER.
C26_CascadeSplit ==
    [][(AllocStep4 /\ last4'.ret # NULL)
        => \A j \in {LeastOrder(ServingOrders)}, r \in {last4'.size}, ret \in {last4'.ret} :
             /\ j > r
                  => /\ ret = free_list[j]
                     /\ OnList(j)' = OnList(j) \ {ret}
                     /\ \A k \in Orders :
                          (r <= k /\ k < j)
                            => /\ (ret + (PAGE_SIZE * (2 ^ k))) \notin OnList(k)
                               /\ OnList(k)' = OnList(k) \cup {ret + (PAGE_SIZE * (2 ^ k))}
                               /\ Len(OrderList(k)') = Len(OrderList(k)) + 1
                               /\ node'[ret + (PAGE_SIZE * (2 ^ k))].is_free = 1
                               /\ node'[ret + (PAGE_SIZE * (2 ^ k))].order = k
                     /\ \A k \in Orders :
                          (k < r \/ k > j) => OrderList(k)' = OrderList(k)
             /\ (last4.op = "init" /\ r = 0)
                  => /\ \A k \in Orders : k < MAX_ORDER => Len(OrderList(k)') = 1
                     /\ OrderList(MAX_ORDER)' = << >>]_vars

\* buddy_alloc(0) has split the whole arena: one free block at each order
\* below MAX_ORDER, at the address the cascade gives it
C26_Witness ==
    /\ Ready4 /\ MAX_ORDER >= 2
    /\ last4.op = "alloc" /\ last4.size = 0 /\ last4.ret = HeapStart
    /\ held = {[p |-> HeapStart, order |-> 0]}
    /\ \A k \in Orders :
         OrderList(k) = IF k < MAX_ORDER THEN <<HeapStart + (PAGE_SIZE * (2 ^ k))>>
                        ELSE << >>

(***************************************************************************)
(* V5: the contracts of kmem_cache_alloc.                                  *)
(***************************************************************************)
\* this step is a kmem_cache_alloc on cache c
AllocStep5(c) == variant = "V5" /\ last5'.op = "alloc" /\ last5'.p = c

\* ptr lies in the page of slab s
InPage(sl, s, ptr) ==
    sl[s].page_start <= ptr /\ ptr < sl[s].page_start + PAGE_SIZE

\* the buddy allocator is as it was
BuddyUntouched == free_list' = free_list /\ node' = node

\* the slab the object of this step was taken from is on partial, at its
\* head, or on full, at its head, once its last object is gone
Relinked(c, s) ==
    IF slabs'[s].free_count = 0 /\ caches[c].objects_per_slab > 0
    THEN caches'[c].slabs_full = s
    ELSE caches'[c].slabs_partial = s

\* C27: kmem_cache_alloc takes the object from the head of partial if
\* partial is non-empty; otherwise it detaches the head of free, pushes it
\* onto partial and uses it; only when partial and free are both empty does
\* it ask the buddy allocator for a new order-0 page (the new slab, bitmap 0
\* and free_count = objects_per_slab, is pushed onto partial).
C27_SourcePriority ==
    [][\A c \in DOMAIN caches : AllocStep5(c) =>
        LET cache == caches[c]
            ret == last5'.ret
        IN  /\ cache.slabs_partial # NULL
                 => /\ BuddyUntouched
                    /\ DOMAIN slabs' = DOMAIN slabs
                    /\ caches'[c].slabs_free = cache.slabs_free
                    /\ ret # NULL => InPage(slabs, cache.slabs_partial, ret)
                    /\ ret # NULL => Relinked(c, cache.slabs_partial)
            /\ (cache.slabs_partial = NULL /\ cache.slabs_free # NULL)
                 => /\ BuddyUntouched
                    /\ DOMAIN slabs' = DOMAIN slabs
                    /\ caches'[c].slabs_free = slabs[cache.slabs_free].next
                    /\ cache.slabs_free \notin Range(SlabList(caches'[c].slabs_free))
                    /\ ret # NULL
                    /\ InPage(slabs, cache.slabs_free, ret)
                    /\ Relinked(c, cache.slabs_free)
            /\ (cache.slabs_partial = NULL /\ cache.slabs_free = NULL)
                 => IF \A k \in Orders : free_list[k] = NULL
                    THEN ret = NULL /\ BuddyUntouched /\ slabs' = slabs /\ caches' = caches
                    ELSE \E s \in DOMAIN slabs' \ DOMAIN slabs :
                           /\ DOMAIN slabs' = DOMAIN slabs \cup {s}
                           /\ slabs'[s].page_start \in PageAddrs
                           /\ slabs'[s].page_start \in FreePages
                           /\ slabs'[s].page_start \notin FreePages'
                           /\ Cardinality(FreePages') = Cardinality(FreePages) - 1
                           /\ Relinked(c, s)
                           /\ IF cache.objects_per_slab > 0
                              THEN /\ ret = slabs'[s].page_start
                                   /\ slabs'[s].bitmap = {0}
                                   /\ slabs'[s].free_count = cache.objects_per_slab - 1
                              ELSE /\ ret = NULL
                                   /\ slabs'[s].bitmap = {}
                                   /\ slabs'[s].free_count = cache.objects_per_slab]_vars

\* kmem_cache_alloc has taken its slab from the free list although the arena
\* still had a free page
C27_Witness ==
    /\ variant = "V5" /\ heap_start # NULL
    /\ last5.op = "alloc" /\ last5.from = "free" /\ last5.ret # NULL
    /\ \E k \in Orders : free_list[k] # NULL

\* the lowest clear bit of a 32-bit bitmap, 32 when every bit is set
LowestClear(bitmap) ==
    IF \A i \in 0 .. 31 : Bit(bitmap, i) = 1 THEN 32
    ELSE CHOOSE i \in 0 .. 31 :
           Bit(bitmap, i) = 0 /\ \A j \in 0 .. (i - 1) : Bit(bitmap, j) = 1

\* the slab this kmem_cache_alloc on cache c chooses, NULL for a new one
Chosen(c) ==
    IF caches[c].slabs_partial # NULL THEN caches[c].slabs_partial
    ELSE caches[c].slabs_free

\* C28: kmem_cache_alloc returns page_start + i * obj_size, i being the
\* lowest clear bit of the bitmap of the slab it chose; hence, after slots
\* 0 .. m of a slab were allocated and then slot j < m freed, no other call in
\* between, the next kmem_cache_alloc returns the address that was freed.
C28_LowestClearBit ==
    [][\A c \in DOMAIN caches : (AllocStep5(c) /\ last5'.ret # NULL) =>
        /\ Chosen(c) # NULL
             => /\ last5'.ret = slabs[Chosen(c)].page_start
                                  + (LowestClear(slabs[Chosen(c)].bitmap)
                                       * caches[c].obj_size)
                /\ slabs'[Chosen(c)].bitmap
                     = slabs[Chosen(c)].bitmap \cup {LowestClear(slabs[Chosen(c)].bitmap)}
        /\ Chosen(c) = NULL
             => \E s \in DOMAIN slabs' \ DOMAIN slabs :
                  last5'.ret = slabs'[s].page_start + (LowestClear({}) * caches[c].obj_size)
        /\ (last5.op = "free" /\ last5.cache = c /\ last5.run >= 2)
             => last5'.ret = last5.p]_vars

\* slots 0, 1 and 2 of a slab were allocated, slot 1 was freed, and the next
\* kmem_cache_alloc has returned the freed address
C28_Witness ==
    /\ variant = "V5" /\ heap_start # NULL
    /\ last5.op = "alloc" /\ last5.freed # NULL /\ last5.ret = last5.freed
    /\ last5.cache \in DOMAIN caches
    /\ SlotOf(last5.ret, caches[last5.cache].obj_size) = 1
    /\ \E s \in DOMAIN slabs : s = caches[last5.cache].slabs_partial
                                /\ slabs[s].bitmap = {0, 1, 2}

\* the slab list that starts at first, in the state after the step
SlabListAfter(first) == SlabListFrom(slabs', first, Cardinality(DOMAIN slabs') + 1)

\* this kmem_cache_alloc on cache c is the one that fills the first slab of
\* the fresh cache
FillingStep(c) ==
    /\ AllocStep5(c)
    /\ last5'.streak = caches[c].objects_per_slab

\* this kmem_cache_alloc on cache c is the one after objects_per_slab
\* successful ones on the fresh cache
GrowthStep(c) ==
    /\ AllocStep5(c)
    /\ last5.cache = c /\ last5.streak = caches[c].objects_per_slab

\* partial is empty and full holds exactly one slab, with free_count = 0
OneFullSlab(c) ==
    /\ caches'[c].slabs_partial = NULL
    /\ Len(SlabListAfter(caches'[c].slabs_full)) = 1
    /\ slabs'[caches'[c].slabs_full].free_count = 0

C29_GrownOnPartial ==
    /\ variant = "V5" /\ heap_start # NULL
    /\ last5.op = "alloc" /\ last5.cache \in DOMAIN caches
    /\ caches[last5.cache].objects_per_slab = 2
    /\ last5.streak = 3
    /\ Len(SlabList(caches[last5.cache].slabs_full)) = 1
    /\ Len(SlabList(caches[last5.cache].slabs_partial)) = 1

\* this step is the kmem_cache_create of a cache of objects of size bytes
CreateStep5(size) ==
    variant = "V5" /\ last5'.op = "create" /\ last5'.size = size

\* this step is the n-th of n successful kmem_cache_alloc calls on the fresh
\* cache c, whose objects have size bytes
NthAlloc(c, size, n) ==
    /\ AllocStep5(c)
    /\ caches[c].obj_size = size
    /\ last5'.streak = n

\* the scenario with per objects to the slab: the cache is created with per
\* objects per slab; the per-th allocation leaves partial empty and exactly
\* one slab on full; the next allocation creates a second slab, on partial
FillScenario(size, per) ==
    /\ CreateStep5(size) => caches'[last5'.ret].objects_per_slab = per
    /\ \A c \in DOMAIN caches :
         /\ NthAlloc(c, size, per)
              => /\ caches'[c].slabs_partial = NULL
                 /\ Len(SlabListAfter(caches'[c].slabs_full)) = 1
         /\ NthAlloc(c, size, per + 1)
              => /\ Cardinality(DOMAIN slabs) = 1
                 /\ Cardinality(DOMAIN slabs') = 2
                 /\ \A s \in DOMAIN slabs' \ DOMAIN slabs :
                      SlabListAfter(caches'[c].slabs_partial) = <<s>>
                 /\ SlabListAfter(caches'[c].slabs_full) = <<caches[c].slabs_full>>

UseStep5 == variant = "V5" /\ last5'.op \in {"alloc", "free"}

\* no page goes back to the buddy allocator and every slab stays with its
\* cache, on its page
PagesRetained ==
    /\ FreePages' \subseteq FreePages
    /\ DOMAIN caches' = DOMAIN caches
    /\ \A c \in DOMAIN caches :
         /\ SlabsOf(c) \subseteq SlabsOf(c)'
         /\ \A s \in SlabsOf(c) : slabs'[s].page_start = slabs[s].page_start

\* V5: between kmem_cache_create and kmem_cache_destroy no kmem_cache_alloc
\* or kmem_cache_free returns a page to the buddy allocator, and the slabs of
\* a cache stay its slabs.
C31_PagesStayWithCache == [][UseStep5 => PagesRetained]_vars

\* C31: between kmem_cache_create and kmem_cache_destroy, no kmem_cache_alloc
\* or kmem_cache_free ever returns a page to the buddy allocator: a slab whose
\* objects are all freed is relinked to the free list and stays owned by the
\* cache, so the set of buddy pages held by a cache never shrinks before
\* kmem_cache_destroy.
C31_PageRetention ==
    [][UseStep5 =>
        /\ PagesRetained
        /\ \A c \in DOMAIN caches : \A s \in SlabsOf(c) :
             (/\ last5'.op = "free" /\ last5'.cache = c /\ last5'.p # NULL
              /\ InPage(slabs, s, last5'.p)
              /\ slabs'[s].free_count = caches[c].objects_per_slab)
               => s \in Range(SlabList(caches[c].slabs_free)')]_vars

\* the last object of a slab of several objects was freed: the slab is on the
\* free list and the buddy allocator has not got its page back
C31_Witness ==
    /\ variant = "V5" /\ heap_start # NULL
    /\ last5.op = "free" /\ last5.p # NULL /\ last5.cache \in DOMAIN caches
    /\ caches[last5.cache].slabs_free # NULL
    /\ slabs[caches[last5.cache].slabs_free].page_start \notin FreePages

\* this step is the kmem_cache_destroy of the only cache over the arena
DestroyStep5 ==
    variant = "V5" /\ last5'.op = "destroy" /\ DOMAIN caches = {last5'.p}

\* the buddy free lists hold one block, of MAX_ORDER, at the arena base
ArenaWhole ==
    /\ free_list = [k \in Orders |-> IF k = MAX_ORDER THEN HeapStart ELSE NULL]
    /\ node[HeapStart] = [next |-> NULL, prev |-> NULL, order |-> MAX_ORDER, is_free |-> 1]

\* C32: kmem_cache_destroy returns every slab's page, from the full, partial
\* and free lists, to the buddy allocator exactly once: if the cache was the
\* only user of the buddy arena, then after kmem_cache_destroy the buddy free
\* lists again hold a single block at MAX_ORDER, whatever sequence of
\* kmem_cache_alloc and kmem_cache_free preceded it.
C32_DestroyRestoresArena ==
    [][DestroyStep5 => (ArenaWhole' /\ DOMAIN slabs' = {})]_vars

\* a cache with slabs on two of its lists has been destroyed
C32_Witness ==
    /\ variant = "V5" /\ heap_start # NULL
    /\ last5.op = "destroy" /\ DOMAIN caches = {}
    /\ ArenaWhole

\* C39: under normal slab use, where callers write arbitrary bytes only
\* inside objects returned by kmem_cache_alloc, the node fields order and
\* is_free that buddy_free reads are never caller-owned bytes: the node of
\* every slab page holds what buddy_alloc recorded (order 0, not free), so the
\* buddy_free in kmem_cache_destroy reads that order and a buddy_free of a
\* neighbouring block never takes an in-use slab page for a free buddy.
C39_SlabPageNodesIntact ==
    variant = "V5" =>
        \A s \in DOMAIN slabs :
            /\ node[slabs[s].page_start].order = 0
            /\ node[slabs[s].page_start].is_free = 0

\* C33: whenever kmem_cache_alloc returns null, for a cache of any obj_size,
\* the cache's three slab lists, every slab's bitmap and free_count, and the
\* buddy free lists are the same as before the call; and it returns null only
\* when a new page was needed and buddy_alloc(0) failed.
C33_NullAllocChangesNothing ==
    [][\A c \in DOMAIN caches : (AllocStep5(c) /\ last5'.ret = NULL) =>
        /\ caches' = caches
        /\ slabs' = slabs
        /\ free_list' = free_list
        /\ caches[c].slabs_partial = NULL /\ caches[c].slabs_free = NULL
        /\ \A k \in Orders : free_list[k] = NULL]_vars

\* the same for the caches whose objects fit a page
C33_NullAllocWhenObjectsFit ==
    [][\A c \in DOMAIN caches :
        (AllocStep5(c) /\ last5'.ret = NULL /\ caches[c].objects_per_slab >= 1) =>
            /\ caches' = caches
            /\ slabs' = slabs
            /\ free_list' = free_list
            /\ caches[c].slabs_partial = NULL /\ caches[c].slabs_free = NULL
            /\ \A k \in Orders : free_list[k] = NULL]_vars

\* a kmem_cache_alloc has failed for want of a page
C33_Witness ==
    /\ variant = "V5" /\ heap_start # NULL
    /\ last5.op = "alloc" /\ last5.ret = NULL /\ last5.cache \in DOMAIN caches
    /\ caches[last5.cache].objects_per_slab >= 1
    /\ Cardinality(DOMAIN slabs) = Cardinality(PageAddrs)

\* this step is a V1 free of a block
FreeStep1 == variant = "V1" /\ last1'.op = "free" /\ last1'.p # NULL

\* C34: V1 free(p) of a block that ends at the current program break
\* (p + size = break) removes that block from the list (tail becomes its
\* predecessor, or head = tail = null if it was the only block) and lowers the
\* break by size + sizeof(header); a block not at the break is only flagged
\* free and the break is unchanged.
C34_TailRelease ==
    [][FreeStep1 =>
        LET header == last1'.p - HEADER_SIZE
            size == hdr[header].size
        IN  IF last1'.p + size = brk
            THEN /\ header \notin DOMAIN hdr'
                 /\ IF head = header
                    THEN head' = NULL /\ tail' = NULL
                    ELSE /\ head' = head
                         /\ tail' # NULL /\ hdr[tail'].next = header
                         /\ hdr'[tail'].next = NULL
                 /\ brk' = brk - (size + HEADER_SIZE)
            ELSE /\ hdr' = [hdr EXCEPT ![header].free = 1]
                 /\ head' = head /\ tail' = tail
                 /\ brk' = brk]_vars

\* the same with the break moved as free moves it: by size - sizeof(header)
C34_TailReleaseAsCoded ==
    [][FreeStep1 =>
        LET header == last1'.p - HEADER_SIZE
            size == hdr[header].size
        IN  IF last1'.p + size = brk
            THEN brk' \in {brk, brk + (size - HEADER_SIZE)}
            ELSE /\ hdr' = [hdr EXCEPT ![header].free = 1]
                 /\ head' = head /\ tail' = tail
                 /\ brk' = brk]_vars

\* the headers met by following next from curr, at most fuel of them
RECURSIVE V1ListSeq(_, _, _)
V1ListSeq(h, curr, fuel) ==
    IF curr = NULL \/ fuel = 0 \/ curr \notin DOMAIN h THEN << >>
    ELSE <<curr>> \o V1ListSeq(h, h[curr].next, fuel - 1)

\* the block list is a singly-linked list from head that ends at tail
V1ListWellFormed ==
    LET list == V1ListSeq(hdr, head, Cardinality(DOMAIN hdr) + 1)
    IN  /\ (head = NULL) <=> (tail = NULL)
        /\ head # NULL =>
             /\ head \in DOMAIN hdr
             /\ Len(list) <= Cardinality(DOMAIN hdr)
             /\ \A i, j \in DOMAIN list : list[i] = list[j] => i = j
             /\ list[Len(list)] = tail
             /\ hdr[tail].next = NULL

\* where a thread stands while it reads or writes head, tail, a free flag or
\* a next pointer, or calls sbrk
AccessPcs == MallocLocked \cup FreeLocked

\* thread t takes a step
Steps(t) == thr'[t] # thr[t]

\* C35: V1, under any interleaving of malloc and free calls from several
\* threads: every read or write of head, tail, a block's free flag or next
\* pointer, and every program-break call, happens while the thread holds
\* global_lock, so no block is handed to two callers that both hold it at the
\* same time and the block list stays a well-formed singly-linked list ending
\* at tail.
C35_Serialized ==
    /\ [][/\ \A t \in Threads :
              (Steps(t) /\ thr[t].pc \in AccessPcs) => global_lock = t
          /\ <<head, tail, hdr, brk>>' # <<head, tail, hdr, brk>>
              => \E t \in Threads :
                   global_lock = t /\ Steps(t) /\ thr[t].pc \in AccessPcs]_vars
    /\ [](variant = "V1" =>
            /\ \A a, b \in live :
                 a # b => (a.p + a.n <= b.p \/ b.p + b.n <= a.p)
            /\ \A t, u \in Threads :
                 (t # u /\ thr[t].pc \in AccessPcs) => thr[u].pc \notin AccessPcs
            /\ V1ListWellFormed)

\* one thread links a new block while the other waits for the mutex in free
\* with the block it held
C35_Witness ==
    /\ variant = "V1"
    /\ \E t, u \in Threads :
         /\ t # u
         /\ thr[t].pc = "malloc_link" /\ global_lock = t
         /\ thr[u].pc = "free_lock"
         /\ head # NULL /\ thr[u].arg = head + HEADER_SIZE

FreeStep3 == variant = "V3" /\ last23'.op = "free" /\ last23'.p # NULL /\ fault' = "none"
\* the tags of the neighbours of the block being freed, before the call
PrevAlloc3 == GET_ALLOC(mem, FTRP(mem, PRV_BLOCK(mem, last23'.p)))
NextAlloc3 == GET_ALLOC(mem, HDRP(NXT_BLOCK(mem, last23'.p)))
PrevOfFreed == PRV_BLOCK(mem, last23'.p)
NextOfFreed == NXT_BLOCK(mem, last23'.p)
ListWithout(list, bp) == SelectSeq(list, LAMBDA x : x # bp)

\* C36 as stated: after my_free(bp) the freed block is the head of the free
\* list in Case 1, the merged block is the head of the free list in Cases 2
\* and 4, and in Case 3 the previous block keeps its place in the list.
C36_MergedBlockIsHead ==
    [][FreeStep3 =>
          /\ PrevAlloc3 = 1 /\ NextAlloc3 = 1 => free_list_p' = last23'.p
          /\ PrevAlloc3 = 1 /\ NextAlloc3 = 0 => free_list_p' = last23'.p
          /\ PrevAlloc3 = 0 /\ NextAlloc3 = 0 => free_list_p' = PrevOfFreed
          /\ PrevAlloc3 = 0 /\ NextAlloc3 = 1 => FreeList' = FreeList]_vars

\* C36, amended: after my_free(bp), in Case 1 the freed block is put at the
\* head of the free list; in Case 2 the next block leaves the list and the
\* merged block, at bp, is put at its head; in Case 3 the list is unchanged,
\* the previous block keeping its place; in Case 4 the next block leaves the
\* list and nothing is inserted: the merged block stands where the previous
\* block stood, which need not be the head.
C36_ListAfterCoalesce ==
    [][FreeStep3 =>
          /\ PrevAlloc3 = 1 /\ NextAlloc3 = 1
               => FreeList' = <<last23'.p>> \o FreeList
          /\ PrevAlloc3 = 1 /\ NextAlloc3 = 0
               => FreeList' = <<last23'.p>> \o ListWithout(FreeList, NextOfFreed)
          /\ PrevAlloc3 = 0 /\ NextAlloc3 = 1
               => FreeList' = FreeList
          /\ PrevAlloc3 = 0 /\ NextAlloc3 = 0
               => FreeList' = ListWithout(FreeList, NextOfFreed)]_vars

\* my_free has merged the block at last23.p with both its neighbours (the
\* blocks handed out are of 32 or 64 bytes, so a free block of 128 bytes that
\* begins 32 bytes before the freed one took in a free block after it), and
\* the merged block is not the head of the list
C36_Witness ==
    /\ Ready23 /\ variant = "V3" /\ last23.op = "free" /\ last23.p # NULL
    /\ \E b \in FreeBlocks :
         /\ b + 2 * DWORD = last23.p
         /\ BlockSize(b) = 8 * DWORD
         /\ free_list_p # b
         /\ Occurs(FreeList, b) = 1

(***************************************************************************)
(* V2/V3: the first my_malloc when the break cannot be advanced.           *)
(***************************************************************************)
\* the prologue: header and footer of size DWORD, allocated
PrologueIntact ==
    /\ GET(mem, heap_list_p - WORD) = PACK(DWORD, 1)
    /\ GET(mem, heap_list_p) = PACK(DWORD, 1)
\* the heap is not set up, or it lies between a prologue and an epilogue
HeapBracketed ==
    \/ heap_list_p = 0
    \/ Ready23 /\ PrologueIntact /\ WalkReachesEpilogue
\* a call my_malloc(size), size >= 1
MallocStep23 == variant \in {"V2", "V3"} /\ last23'.op = "malloc" /\ last23'.size >= 1
\* the first my_malloc, during which the host refused the 4 words of mminit
\* and every later request of the call
InitRefused == MallocStep23 /\ heap_list_p = 0 /\ brk' = brk
\* the first my_malloc, during which the host granted the 4 words of mminit
\* and refused the chunk and every later request of the call
ChunkRefused == MallocStep23 /\ heap_list_p = 0 /\ brk' = brk + (4 * WORD)
\* a my_malloc after the first one, during which the break was advanced
LaterGranted == MallocStep23 /\ heap_list_p # 0 /\ fault = "none" /\ brk' > brk
\* the call returned an allocated block of a heap that lies between prologue
\* and epilogue
ReturnedValid ==
    /\ last23.ret # NULL /\ fault = "none" /\ Ready23 /\ HeapBracketed
    /\ \E i \in 1 .. Len(HeapBlocks) :
         HeapBlocks[i] = last23.ret /\ ~IsFree(last23.ret)

\* C37 as stated: when the break cannot be advanced during the lazy
\* initialisation of the first my_malloc (the 4-word request or the chunk
\* extension fails), my_malloc returns null without an access outside the
\* arena and leaves a state that satisfies the invariants of the heap, and a
\* later my_malloc for which the break can be advanced returns a valid block
\* of a heap that lies between prologue and epilogue.
C37_LazyInitFailure ==
    [][/\ (InitRefused \/ ChunkRefused)
            => last23'.ret = NULL /\ fault' = "none" /\ HeapBracketed'
       /\ LaterGranted => ReturnedValid']_vars

\* the part of C37 that holds: when the 4 words are granted and the chunk is
\* refused, my_malloc returns null, the heap is a prologue followed by the
\* epilogue, and a later my_malloc that advances the break from such a heap
\* returns a valid block
C37_ChunkRefusal ==
    [][/\ ChunkRefused
            => /\ last23'.ret = NULL /\ fault' = "none" /\ HeapBracketed'
               /\ heap_list_p' = brk + (2 * WORD) /\ HeapBlocks' = << >>
       /\ LaterGranted /\ heap_list_p # SBRK_FAILED
            => ReturnedValid']_vars

\* a my_malloc has returned a block of a heap whose chunk the host had
\* refused during mminit: the heap is a single extension of 96 bytes, which
\* after a granted chunk would have been merged with it
C37_RecoveredAfterChunkRefusal ==
    /\ Ready23 /\ last23.op = "malloc" /\ ReturnedValid
    /\ brk = InitBreak + (4 * WORD) + (6 * DWORD)

(***************************************************************************)
(* V2/V3: the blocks tile the arena between prologue and epilogue.          *)
(***************************************************************************)
RECURSIVE SizeSum(_)
SizeSum(bs) == IF bs = << >> THEN 0 ELSE BlockSize(Head(bs)) + SizeSum(Tail(bs))

\* the bytes the heap extensions obtained: what sbrk gave beyond the 4 words
\* of mminit
ExtensionBytes == brk - (InitBreak + (4 * WORD))

\* C38: in V2 and V3, in every state reached after the heap is initialised,
\* the prologue (size 16, allocated) and the epilogue (size 0, allocated, the
\* last word below the break) are intact, every block between them has a
\* size that is a multiple of 16 and at least 32, the walk from the first
\* block by header sizes visits each block once, in ascending order, and
\* arrives exactly at the epilogue, and the sizes of the blocks add up to the
\* bytes the heap extensions obtained.
C38_ArenaTiling ==
    Ready23 =>
        /\ PrologueIntact
        /\ heap_list_p = InitBreak + (2 * WORD)
        /\ GET(mem, brk - WORD) = PACK(0, 1)
        /\ WalkReachesEpilogue
        /\ \A i \in 1 .. Len(HeapBlocks) :
             /\ BlockSize(HeapBlocks[i]) % DWORD = 0
             /\ BlockSize(HeapBlocks[i]) >= 2 * DWORD
             /\ HeapBlocks[i] = (IF i = 1 THEN heap_list_p + DWORD
                                 ELSE NXT_BLOCK(mem, HeapBlocks[i - 1]))
             /\ \A j \in 1 .. Len(HeapBlocks) : i < j => HeapBlocks[i] < HeapBlocks[j]
        /\ SizeSum(HeapBlocks) = ExtensionBytes

\* the heap was extended twice and holds three blocks or more, free and
\* allocated ones among them, after a my_free
C38_Witness ==
    /\ Ready23 /\ last23.op = "free" /\ last23.p # NULL
    /\ brk = MaxBreak
    /\ Len(HeapBlocks) >= 3
    /\ \E bp \in Range(HeapBlocks) : IsFree(bp)
    /\ \E bp \in Range(HeapBlocks) : ~IsFree(bp)
    /\ SizeSum(HeapBlocks) = 2 * CHUNKSIZE
============================================================================
